---- MODULE Spec2Model ----
(***************************************************************************)
(* A model of effect-faker: the facade EffectFaker, the generation engine  *)
(* MockGenerator with its method-invocation interpreter, and the locale /  *)
(* randomness provider the engine draws from.                              *)
(*                                                                         *)
(* Strings are TLA+ strings, read character by character with Head, Tail   *)
(* and SubSeq.  A generated value is a record of one fixed shape (Val), so *)
(* that any two values can be compared.                                    *)
(***************************************************************************)
EXTENDS Integers, Sequences, FiniteSets, TLC

VARIABLES
    providers,      \* the provider instances (Faker objects) by slot
    currentFaker,   \* MockGenerator.currentFaker: the slot of the active provider
    currentSeed,    \* MockGenerator.currentSeed
    facadeSeed,     \* EffectFaker.currentSeed
    effects,        \* the deferred effects the caller holds
    customFakers,   \* EffectFakerRegistry.customFakers: the Map's entries in
                    \* insertion order
    registered,     \* every registerFaker call made so far, in order
    other,          \* a second EffectFaker with its own MockGenerator: their
                    \* currentSeed fields (its currentFaker is the module-level
                    \* faker: it is never given a locale)
    pending,        \* the seed of the last seed() call while no generation of
                    \* this facade has ended since
    last            \* the operation that just ended, until the caller goes on:
                    \* its inputs, its outcome, what it returned

vars ==
    <<providers, currentFaker, currentSeed, facadeSeed, effects, customFakers,
      registered, other, pending, last>>

(***************************************************************************)
(* Bounds of the model.                                                    *)
(***************************************************************************)
\* The most values one provider instance hands out after a (re)seed.
MaxPos == 2
\* The largest count a call asks for.
MaxCount == 2
\* The most deferred effects the caller holds at once.
MaxEffects == 1
\* The most registerFaker calls.
MaxRegs == 3

(***************************************************************************)
(* Characters and strings.                                                 *)
(***************************************************************************)
LowerLetters ==
    {"a","b","c","d","e","f","g","h","i","j","k","l","m",
     "n","o","p","q","r","s","t","u","v","w","x","y","z"}

UpperLetters ==
    {"A","B","C","D","E","F","G","H","I","J","K","L","M",
     "N","O","P","Q","R","S","T","U","V","W","X","Y","Z"}

\* String.prototype.toLowerCase on one character.
LowerOf(c) ==
    CASE c = "A" -> "a" [] c = "B" -> "b" [] c = "C" -> "c" [] c = "D" -> "d"
      [] c = "E" -> "e" [] c = "F" -> "f" [] c = "G" -> "g" [] c = "H" -> "h"
      [] c = "I" -> "i" [] c = "J" -> "j" [] c = "K" -> "k" [] c = "L" -> "l"
      [] c = "M" -> "m" [] c = "N" -> "n" [] c = "O" -> "o" [] c = "P" -> "p"
      [] c = "Q" -> "q" [] c = "R" -> "r" [] c = "S" -> "s" [] c = "T" -> "t"
      [] c = "U" -> "u" [] c = "V" -> "v" [] c = "W" -> "w" [] c = "X" -> "x"
      [] c = "Y" -> "y" [] c = "Z" -> "z" [] OTHER -> c

RECURSIVE toLowerCase(_)
toLowerCase(s) ==
    IF Len(s) = 0 THEN "" ELSE LowerOf(Head(s)) \o toLowerCase(Tail(s))

\* String.prototype.includes.
includes(s, sub) ==
    \E i \in 1..(Len(s) - Len(sub) + 1) : SubSeq(s, i, i + Len(sub) - 1) = sub

\* The index of the first occurrence of character c in s, 0 when there is none.
IndexOf(s, c) ==
    IF \A i \in 1..Len(s) : SubSeq(s, i, i) # c THEN 0
    ELSE CHOOSE i \in 1..Len(s) :
            SubSeq(s, i, i) = c /\ \A j \in 1..(i - 1) : SubSeq(s, j, j) # c

\* String.prototype.split on a one-character separator: always at least one piece.
RECURSIVE split(_, _)
RECURSIVE splitAt(_, _, _)
split(s, sep) == splitAt(s, sep, IndexOf(s, sep))
splitAt(s, sep, i) ==
    IF i = 0 THEN <<s>>
    ELSE <<SubSeq(s, 1, i - 1)>> \o split(SubSeq(s, i + 1, Len(s)), sep)

\* path.split('.').pop() || path
Pop(parts) == parts[Len(parts)]

getFieldName(path) ==
    IF Len(Pop(split(path, "."))) > 0 THEN Pop(split(path, ".")) ELSE path

(***************************************************************************)
(* The pattern /^([a-zA-Z.]+)(?:\((.+)\))?$/ of executeFakerMethod.        *)
(***************************************************************************)
PathChars == LowerLetters \cup UpperLetters \cup {"."}

\* The characters the pattern's dot does not match.
LineTerminators == {"\n", "\r"}

\* The length of the longest prefix of s made of [a-zA-Z.] characters.
RECURSIVE PathPrefixLen(_)
PathPrefixLen(s) ==
    IF Len(s) = 0 THEN 0
    ELSE IF Head(s) \in PathChars THEN 1 + PathPrefixLen(Tail(s))
    ELSE 0

NoLineTerminator(s) ==
    \A i \in 1..Len(s) : SubSeq(s, i, i) \notin LineTerminators

NoMatch == [ok |-> FALSE, path |-> "", hasArgs |-> FALSE, argsStr |-> ""]

\* What follows the first group: nothing, or "(" one or more characters ")".
MatchRest(path, rest) ==
    IF Len(rest) = 0
    THEN [ok |-> TRUE, path |-> path, hasArgs |-> FALSE, argsStr |-> ""]
    ELSE IF /\ Len(rest) >= 3
            /\ Head(rest) = "("
            /\ SubSeq(rest, Len(rest), Len(rest)) = ")"
            /\ NoLineTerminator(SubSeq(rest, 2, Len(rest) - 1))
    THEN [ok |-> TRUE, path |-> path, hasArgs |-> TRUE,
          argsStr |-> SubSeq(rest, 2, Len(rest) - 1)]
    ELSE NoMatch

MatchAt(fakerPath, p) ==
    IF p = 0 THEN NoMatch
    ELSE MatchRest(SubSeq(fakerPath, 1, p), SubSeq(fakerPath, p + 1, Len(fakerPath)))

\* fakerPath.match(...): the first group can only be the whole [a-zA-Z.]
\* prefix, since what follows it is the end of the string or a "(".
MatchSpec(fakerPath) == MatchAt(fakerPath, PathPrefixLen(fakerPath))

(***************************************************************************)
(* Values.  kind is the JavaScript kind of the value; gen names what made  *)
(* it (a provider method, a literal, a user function, a coercion); loc is  *)
(* the locale of the provider that made it; n/den is its number (for a     *)
(* text, the number the provider drew to pick it); txt is fixed text; keys *)
(* and items are the members of an object or array, in order.              *)
(***************************************************************************)
Val(kind, gen, loc, n, txt) ==
    [kind |-> kind, gen |-> gen, loc |-> loc, n |-> n, den |-> 1, txt |-> txt,
     keys |-> <<>>, items |-> <<>>]

Undefined == Val("undefined", "", "", 0, "")
NaN == Val("number", "NaN", "", 0, "")
Text(t) == Val("string", "text", "", 0, t)
Num(k) == Val("number", "num", "", k, "")

\* The empty string is the one falsy string.
IsEmptyText(v) == v.kind = "string" /\ v.gen = "text" /\ Len(v.txt) = 0

\* String(v)
String(v) ==
    IF v.kind = "string" THEN v
    ELSE [v EXCEPT !.kind = "string", !.gen = "String(" \o v.gen \o ")",
                   !.keys = <<>>, !.items = <<>>]

\* Number(v): a text made from a number reads back as that number, every
\* other text of the model is not numeric.
Number(v) ==
    CASE v.kind = "number" -> v
      [] v.kind = "boolean" -> Val("number", "Number(" \o v.gen \o ")", "", v.n, "")
      [] v.kind = "date" -> Val("number", "Number(" \o v.gen \o ")", "", v.n, "")
      [] v.kind = "string" /\ v.gen \in {"String(num)", "String(number.int)"}
           /\ Len(v.txt) = 0 -> Val("number", "Number(" \o v.gen \o ")", "", v.n, "")
      [] OTHER -> NaN

\* Boolean(v)
Truthy(v) ==
    CASE v.kind = "boolean" -> v.n = 1
      [] v.kind = "number" -> v.gen # "NaN" /\ v.n # 0
      [] v.kind = "string" -> ~IsEmptyText(v)
      [] v.kind = "undefined" -> FALSE
      [] OTHER -> TRUE

Boolean(v) ==
    IF v.kind = "boolean" THEN v
    ELSE Val("boolean", "Boolean(" \o v.gen \o ")", "", IF Truthy(v) THEN 1 ELSE 0, "")

\* new Date(v)
NewDate(v) ==
    IF v.kind = "date" THEN v
    ELSE Val("date", "Date(" \o v.gen \o ")", "", v.n, "")

Coerce(kind, v) ==
    CASE kind = "string" -> String(v)
      [] kind = "number" -> Number(v)
      [] kind = "boolean" -> Boolean(v)
      [] OTHER -> NewDate(v)

(***************************************************************************)
(* The functions a caller can put in an override configuration.            *)
(***************************************************************************)
\* Override functions () => unknown: fixedValue and seven.
CallOverrideFn(f) ==
    CASE f = "fixedValue" -> Text("fixed-value")
      [] f = "seven" -> Num(7)
      [] OTHER -> Undefined

\* drPrefix is value => `Dr. ${value}`; plusOne is value => value + 1, which
\* adds to a number and appends to anything else.
ApplyTransform(t, v) ==
    CASE t = "drPrefix" -> [String(v) EXCEPT !.txt = "Dr. " \o @]
      [] t = "plusOne" ->
           IF v.kind = "number" /\ v.gen # "NaN" THEN [v EXCEPT !.n = @ + 1]
           ELSE IF v.kind = "number" THEN v
           ELSE [String(v) EXCEPT !.txt = @ \o "1"]
      [] OTHER -> Undefined

(***************************************************************************)
(* The provider (a Faker instance): a locale and a seeded stream.  An      *)
(* instance is [locale, seed, pos]: pos values were drawn since it was     *)
(* last seeded with seed.  An instance that was never seeded holds a seed  *)
(* of its own, drawn when it was built.                                    *)
(***************************************************************************)
\* The seeds an unseeded instance may start from.
EntropySeeds == {901, 902}

\* The pos-th number of the stream seeded with seed.
Rand(seed, pos) == (((seed % 1009) * 7) + (pos * 13) + 5) % 1009

\* The members of a provider reached by a dotted path: objects (modules and
\* data) and functions.
ObjectPaths ==
    {"lorem", "person", "internet", "phone", "location", "number", "datatype",
     "string", "date", "helpers", "definitions"}

StringMethods ==
    {"lorem.word", "lorem.sentence", "lorem.paragraph", "person.firstName",
     "person.fullName", "internet.email", "internet.url", "phone.number",
     "location.streetAddress", "location.city", "location.country",
     "string.uuid", "string.alphanumeric", "helpers.fake"}

DateMethods == {"date.past", "date.recent", "date.future"}

FunctionPaths ==
    StringMethods \cup DateMethods \cup {"number.int", "number.float", "datatype.boolean"}

\* An argument of a provider call.
NoArg == [t |-> "none", min |-> 0, max |-> 0, digits |-> 0]
RangeArg(lo, hi) == [t |-> "obj", min |-> lo, max |-> hi, digits |-> 0]
FloatArg(lo, hi, d) == [t |-> "obj", min |-> lo, max |-> hi, digits |-> d]
NumArg(k) == [t |-> "num", min |-> 0, max |-> k, digits |-> 0]
StrArg == [t |-> "str", min |-> 0, max |-> 0, digits |-> 0]

\* The provider's own faults: helpers.fake needs a pattern, a range needs
\* min <= max.
ProviderThrows(m, arg) ==
    \/ m = "helpers.fake" /\ arg.t # "str"
    \/ m \in {"number.int", "number.float"} /\ arg.t = "obj" /\ arg.min > arg.max

PowTen(d) == IF d = 0 THEN 1 ELSE IF d = 1 THEN 10 ELSE 100

\* What method m returns on arguments arg when the stream gives r.
ValueFor(m, arg, locale, r) ==
    CASE m = "number.int" ->
           IF arg.t = "obj"
           THEN Val("number", m, "", arg.min + (r % (arg.max - arg.min + 1)), "")
           ELSE IF arg.t = "num" THEN Val("number", m, "", r % (arg.max + 1), "")
           ELSE Val("number", m, "", r, "")
      [] m = "number.float" ->
           IF arg.t = "obj"
           THEN [Val("number", m, "",
                     (arg.min * PowTen(arg.digits))
                        + (r % ((arg.max - arg.min) * PowTen(arg.digits) + 1)), "")
                   EXCEPT !.den = PowTen(arg.digits)]
           ELSE [Val("number", m, "", r, "") EXCEPT !.den = 1009]
      [] m = "datatype.boolean" -> Val("boolean", m, "", r % 2, "")
      [] m \in DateMethods -> Val("date", m, "", r, "")
      [] OTHER -> Val("string", m, locale, r, "")

\* What method m returns on arguments arg from instance fk.
ProviderValue(m, arg, fk) == ValueFor(m, arg, fk.locale, Rand(fk.seed, fk.pos))

(***************************************************************************)
(* The state one generateSync call threads through the walk: the active    *)
(* instance fk, the Math.random() draws still to come, the provider calls  *)
(* made, and the error thrown, if any.                                     *)
(***************************************************************************)
\* Math.random() is 0, 1/3 or 2/3: a numerator over RandomDen.
RandomNums == {0, 1, 2}
RandomDen == Cardinality(RandomNums)

Ret(v, g) == [v |-> v, g |-> g]

\* One call of provider method m: a fault leaves the stream where it was.
\* calls keeps the method, the argument, and what the call returned.
Invoke(g, m, arg) ==
    IF g.err # "" THEN Ret(Undefined, g)
    ELSE IF ProviderThrows(m, arg)
    THEN Ret(Undefined,
             [g EXCEPT !.err = "FakerError",
                       !.calls = Append(@, [m |-> m, arg |-> arg, threw |-> TRUE,
                                            v |-> Undefined])])
    ELSE Ret(ProviderValue(m, arg, g.fk),
             [g EXCEPT !.fk.pos = @ + 1,
                       !.calls = Append(@, [m |-> m, arg |-> arg, threw |-> FALSE,
                                            v |-> ProviderValue(m, arg, g.fk)])])

\* JSON.parse on the argument texts of the model: the value, or a SyntaxError.
JsonParse(s) ==
    CASE s = "{\"min\": 25, \"max\": 30}" -> [ok |-> TRUE, arg |-> RangeArg(25, 30)]
      [] s = "{\"min\": 30, \"max\": 25}" -> [ok |-> TRUE, arg |-> RangeArg(30, 25)]
      [] s = "5" -> [ok |-> TRUE, arg |-> NumArg(5)]
      [] s = "\"{{person.firstName}}\"" -> [ok |-> TRUE, arg |-> StrArg]
      [] OTHER -> [ok |-> FALSE, arg |-> NoArg]

\* The walk `for (const part of pathParts) fakerFn = fakerFn[part]`: the
\* member reached, or "absent" at the first falsy one.
RECURSIVE Resolve(_, _)
RECURSIVE ResolveStep(_, _, _)
Resolve(cur, parts) ==
    IF Len(parts) = 0
    THEN [kind |-> IF cur \in FunctionPaths THEN "function" ELSE "object", name |-> cur]
    ELSE ResolveStep(cur, parts,
                     IF Len(cur) = 0 THEN Head(parts) ELSE cur \o "." \o Head(parts))
ResolveStep(cur, parts, next) ==
    IF Len(Head(parts)) = 0 \/ cur \in FunctionPaths
       \/ next \notin (ObjectPaths \cup FunctionPaths)
    THEN [kind |-> "absent", name |-> next]
    ELSE Resolve(next, Tail(parts))

\* A variant with no catch: C28_RetryThenPropagate tells it from
\* RetryWithoutArgs.
NoRetry(first, name) == first

\* catch { return fakerFn() }: the call with the parsed arguments threw.
RetryWithoutArgs(first, name) ==
    IF first.g.err # "" THEN Invoke([first.g EXCEPT !.err = ""], name, NoArg)
    ELSE first

\* A variant that drops the parsed argument: C8_ArgumentBlob tells it from
\* executeWithArgs.
executeIgnoringArgs(g, name, args) == Invoke(g, name, NoArg)

\* try { args = JSON.parse(argsStr); return fakerFn(args) } catch { ... }
executeWithArgs(g, name, args) ==
    IF args.ok THEN RetryWithoutArgs(Invoke(g, name, args.arg), name)
    ELSE Invoke(g, name, NoArg)

executeResolved(g, match, fakerFn) ==
    IF fakerFn.kind = "absent" THEN Invoke(g, "lorem.word", NoArg)
    ELSE IF fakerFn.kind # "function" THEN Invoke(g, "lorem.word", NoArg)
    ELSE IF match.hasArgs THEN executeWithArgs(g, fakerFn.name, JsonParse(match.argsStr))
    ELSE Invoke(g, fakerFn.name, NoArg)

executeMatched(g, match) ==
    IF ~match.ok THEN Invoke(g, "lorem.word", NoArg)
    ELSE executeResolved(g, match, Resolve("", split(match.path, ".")))

\* A variant that looks the spec up among the registered functions first:
\* C24_RegistryNotConsulted tells it from executeFakerMethod.
executeFromRegistry(g, fakerPath) ==
    IF \E i \in 1..Len(customFakers) : customFakers[i].key = fakerPath
    THEN Ret(CallOverrideFn(customFakers[CHOOSE i \in 1..Len(customFakers) :
                                            customFakers[i].key = fakerPath].value), g)
    ELSE executeMatched(g, MatchSpec(fakerPath))

executeFakerMethod(g, fakerPath) == executeMatched(g, MatchSpec(fakerPath))

(***************************************************************************)
(* Override configuration: a field name maps to a function, a method-spec  *)
(* string or a FieldMockConfig {faker, transform}; a missing entry, like a *)
(* missing faker or transform, is "" here.                                 *)
(***************************************************************************)
NoOverride == [t |-> "undefined", f |-> "", s |-> "", faker |-> "", transform |-> ""]
FnOverride(f) == [NoOverride EXCEPT !.t = "function", !.f = f]
StrOverride(s) == [NoOverride EXCEPT !.t = "string", !.s = s]
ObjOverride(fk, tr) == [NoOverride EXCEPT !.t = "object", !.faker = fk, !.transform = tr]

\* config[name]
ConfigAt(config, name) ==
    IF name \in DOMAIN config THEN config[name] ELSE NoOverride

(***************************************************************************)
(* The generators of one primitive field.  kind(transform(result)) and     *)
(* kind(result) on what the interpreter returned are Coerced and           *)
(* Transformed.                                                            *)
(***************************************************************************)
Coerced(kind, r) == Ret(Coerce(kind, r.v), r.g)
Transformed(transform, r) == Ret(ApplyTransform(transform, r.v), r.g)
\* A variant that coerces before it transforms: C10_TransformThenCoerce tells
\* it from TransformThenCoerce.
CoerceThenTransform(kind, transform, r) == Transformed(transform, Coerced(kind, r))
TransformThenCoerce(kind, transform, r) == Coerced(kind, Transformed(transform, r))

\* A variant that looks at the field name before the override:
\* C6_OverrideWins tells it from generateString.
generateStringHeuristicFirst(g, path, fieldConfig) ==
    IF includes(toLowerCase(getFieldName(path)), "email")
         THEN Invoke(g, "internet.email", NoArg)
    ELSE IF includes(toLowerCase(getFieldName(path)), "name")
         THEN Invoke(g, "person.fullName", NoArg)
    ELSE IF fieldConfig.t = "function"
    THEN Ret(String(CallOverrideFn(fieldConfig.f)), g)
    ELSE IF fieldConfig.t = "string"
    THEN Coerced("string", executeFakerMethod(g, fieldConfig.s))
    ELSE Invoke(g, "lorem.word", NoArg)

\* A variant that asks for 'country' before every other name: C14_FirstRuleWins
\* tells it from generateString.
generateStringCountryFirst(g, path, fieldConfig) ==
    IF fieldConfig.t = "function"
    THEN Ret(String(CallOverrideFn(fieldConfig.f)), g)
    ELSE IF fieldConfig.t = "string"
    THEN Coerced("string", executeFakerMethod(g, fieldConfig.s))
    ELSE IF fieldConfig.t = "object" /\ Len(fieldConfig.faker) > 0
    THEN IF Len(fieldConfig.transform) > 0
         THEN TransformThenCoerce("string", fieldConfig.transform,
                                  executeFakerMethod(g, fieldConfig.faker))
         ELSE Coerced("string", executeFakerMethod(g, fieldConfig.faker))
    ELSE IF includes(toLowerCase(getFieldName(path)), "country")
         THEN Invoke(g, "location.country", NoArg)
    ELSE IF includes(toLowerCase(getFieldName(path)), "email")
         THEN Invoke(g, "internet.email", NoArg)
    ELSE IF includes(toLowerCase(getFieldName(path)), "name")
         THEN Invoke(g, "person.fullName", NoArg)
    ELSE IF includes(toLowerCase(getFieldName(path)), "phone")
         THEN Invoke(g, "phone.number", NoArg)
    ELSE IF includes(toLowerCase(getFieldName(path)), "address")
         THEN Invoke(g, "location.streetAddress", NoArg)
    ELSE IF includes(toLowerCase(getFieldName(path)), "city")
         THEN Invoke(g, "location.city", NoArg)
    ELSE IF includes(toLowerCase(getFieldName(path)), "country")
         THEN Invoke(g, "location.country", NoArg)
    ELSE IF includes(toLowerCase(getFieldName(path)), "url")
         THEN Invoke(g, "internet.url", NoArg)
    ELSE IF includes(toLowerCase(getFieldName(path)), "title")
         THEN Invoke(g, "lorem.sentence", NoArg)
    ELSE IF includes(toLowerCase(getFieldName(path)), "description")
         THEN Invoke(g, "lorem.paragraph", NoArg)
    ELSE Invoke(g, "lorem.word", NoArg)

generateString(g, path, fieldConfig) ==
    IF fieldConfig.t = "function"
    THEN Ret(String(CallOverrideFn(fieldConfig.f)), g)
    ELSE IF fieldConfig.t = "string"
    THEN Coerced("string", executeFakerMethod(g, fieldConfig.s))
    ELSE IF fieldConfig.t = "object" /\ Len(fieldConfig.faker) > 0
    THEN IF Len(fieldConfig.transform) > 0
         THEN TransformThenCoerce("string", fieldConfig.transform,
                                  executeFakerMethod(g, fieldConfig.faker))
         ELSE Coerced("string", executeFakerMethod(g, fieldConfig.faker))
    ELSE IF includes(toLowerCase(getFieldName(path)), "email")
         THEN Invoke(g, "internet.email", NoArg)
    ELSE IF includes(toLowerCase(getFieldName(path)), "name")
         THEN Invoke(g, "person.fullName", NoArg)
    ELSE IF includes(toLowerCase(getFieldName(path)), "phone")
         THEN Invoke(g, "phone.number", NoArg)
    ELSE IF includes(toLowerCase(getFieldName(path)), "address")
         THEN Invoke(g, "location.streetAddress", NoArg)
    ELSE IF includes(toLowerCase(getFieldName(path)), "city")
         THEN Invoke(g, "location.city", NoArg)
    ELSE IF includes(toLowerCase(getFieldName(path)), "country")
         THEN Invoke(g, "location.country", NoArg)
    ELSE IF includes(toLowerCase(getFieldName(path)), "url")
         THEN Invoke(g, "internet.url", NoArg)
    ELSE IF includes(toLowerCase(getFieldName(path)), "title")
         THEN Invoke(g, "lorem.sentence", NoArg)
    ELSE IF includes(toLowerCase(getFieldName(path)), "description")
         THEN Invoke(g, "lorem.paragraph", NoArg)
    ELSE Invoke(g, "lorem.word", NoArg)

\* A variant that asks for 'count' and 'quantity' before 'price' and 'cost':
\* C15_NumberRule tells it from generateNumber.
generateNumberCountFirst(g, path, fieldConfig) ==
    IF fieldConfig.t = "function"
    THEN Ret(Number(CallOverrideFn(fieldConfig.f)), g)
    ELSE IF fieldConfig.t = "string"
    THEN Coerced("number", executeFakerMethod(g, fieldConfig.s))
    ELSE IF fieldConfig.t = "object" /\ Len(fieldConfig.faker) > 0
    THEN IF Len(fieldConfig.transform) > 0
         THEN TransformThenCoerce("number", fieldConfig.transform,
                                  executeFakerMethod(g, fieldConfig.faker))
         ELSE Coerced("number", executeFakerMethod(g, fieldConfig.faker))
    ELSE IF toLowerCase(getFieldName(path)) = "id"
         THEN Invoke(g, "number.int", RangeArg(1, 100000))
    ELSE IF includes(toLowerCase(getFieldName(path)), "age")
         THEN Invoke(g, "number.int", RangeArg(18, 80))
    ELSE IF \/ includes(toLowerCase(getFieldName(path)), "count")
            \/ includes(toLowerCase(getFieldName(path)), "quantity")
         THEN Invoke(g, "number.int", RangeArg(1, 100))
    ELSE IF \/ includes(toLowerCase(getFieldName(path)), "price")
            \/ includes(toLowerCase(getFieldName(path)), "cost")
         THEN Invoke(g, "number.float", FloatArg(10, 1000, 2))
    ELSE Invoke(g, "number.int", NoArg)

generateNumber(g, path, fieldConfig) ==
    IF fieldConfig.t = "function"
    THEN Ret(Number(CallOverrideFn(fieldConfig.f)), g)
    ELSE IF fieldConfig.t = "string"
    THEN Coerced("number", executeFakerMethod(g, fieldConfig.s))
    ELSE IF fieldConfig.t = "object" /\ Len(fieldConfig.faker) > 0
    THEN IF Len(fieldConfig.transform) > 0
         THEN TransformThenCoerce("number", fieldConfig.transform,
                                  executeFakerMethod(g, fieldConfig.faker))
         ELSE Coerced("number", executeFakerMethod(g, fieldConfig.faker))
    ELSE IF toLowerCase(getFieldName(path)) = "id"
         THEN Invoke(g, "number.int", RangeArg(1, 100000))
    ELSE IF includes(toLowerCase(getFieldName(path)), "age")
         THEN Invoke(g, "number.int", RangeArg(18, 80))
    ELSE IF \/ includes(toLowerCase(getFieldName(path)), "price")
            \/ includes(toLowerCase(getFieldName(path)), "cost")
         THEN Invoke(g, "number.float", FloatArg(10, 1000, 2))
    ELSE IF \/ includes(toLowerCase(getFieldName(path)), "count")
            \/ includes(toLowerCase(getFieldName(path)), "quantity")
         THEN Invoke(g, "number.int", RangeArg(1, 100))
    ELSE Invoke(g, "number.int", NoArg)

generateBoolean(g, path, fieldConfig) ==
    IF fieldConfig.t = "function"
    THEN Ret(Boolean(CallOverrideFn(fieldConfig.f)), g)
    ELSE IF fieldConfig.t = "string"
    THEN Coerced("boolean", executeFakerMethod(g, fieldConfig.s))
    ELSE IF fieldConfig.t = "object" /\ Len(fieldConfig.faker) > 0
    THEN IF Len(fieldConfig.transform) > 0
         THEN TransformThenCoerce("boolean", fieldConfig.transform,
                                  executeFakerMethod(g, fieldConfig.faker))
         ELSE Coerced("boolean", executeFakerMethod(g, fieldConfig.faker))
    ELSE Invoke(g, "datatype.boolean", NoArg)

generateDate(g, path, fieldConfig) ==
    IF fieldConfig.t = "function"
    THEN Ret(NewDate(CallOverrideFn(fieldConfig.f)), g)
    ELSE IF fieldConfig.t = "string"
    THEN Coerced("date", executeFakerMethod(g, fieldConfig.s))
    ELSE IF fieldConfig.t = "object" /\ Len(fieldConfig.faker) > 0
    THEN IF Len(fieldConfig.transform) > 0
         THEN TransformThenCoerce("date", fieldConfig.transform,
                                  executeFakerMethod(g, fieldConfig.faker))
         ELSE Coerced("date", executeFakerMethod(g, fieldConfig.faker))
    ELSE IF \/ includes(toLowerCase(getFieldName(path)), "created")
            \/ includes(toLowerCase(getFieldName(path)), "birth")
         THEN Invoke(g, "date.past", NoArg)
    ELSE IF \/ includes(toLowerCase(getFieldName(path)), "updated")
            \/ includes(toLowerCase(getFieldName(path)), "modified")
         THEN Invoke(g, "date.recent", NoArg)
    ELSE IF \/ includes(toLowerCase(getFieldName(path)), "expire")
            \/ includes(toLowerCase(getFieldName(path)), "due")
         THEN Invoke(g, "date.future", NoArg)
    ELSE Invoke(g, "date.recent", NoArg)

(***************************************************************************)
(* Type descriptions (AST nodes), by tag.                                  *)
(***************************************************************************)
StringKeyword == [tag |-> "StringKeyword"]
NumberKeyword == [tag |-> "NumberKeyword"]
BooleanKeyword == [tag |-> "BooleanKeyword"]
AnyKeyword == [tag |-> "AnyKeyword"]
\* S.suspend(() => schema): the node of a recursive schema.
Suspend == [tag |-> "Suspend"]
Literal(t) == [tag |-> "Literal", literal |-> Val("string", "literal", "", 0, t)]
Prop(name, type) == [name |-> name, type |-> type]
TypeLiteral(props) == [tag |-> "TypeLiteral", propertySignatures |-> props]
Union(types) == [tag |-> "Union", types |-> types]
TupleType(types) ==
    [tag |-> "TupleType", elements |-> [i \in 1..Len(types) |-> [type |-> types[i]]]]
Refinement(from) == [tag |-> "Refinement", from |-> from]
Transformation(from) == [tag |-> "Transformation", from |-> from]
\* A Declaration carries its type parameters; what it declares (Date, a
\* brand, ...) is in its annotations, which the engine does not read.
Declaration(declares, typeParameters) ==
    [tag |-> "Declaration", declares |-> declares, typeParameters |-> typeParameters]

\* The decimal text of a small index.
IndexText(i) ==
    CASE i = 0 -> "0" [] i = 1 -> "1" [] i = 2 -> "2" [] i = 3 -> "3"
      [] i = 4 -> "4" [] OTHER -> "9"

\* result[key] = v on an object value: a new key goes last.
SetKey(obj, key, v) ==
    IF \E i \in 1..Len(obj.keys) : obj.keys[i] = key
    THEN [obj EXCEPT !.items[CHOOSE j \in 1..Len(obj.keys) : obj.keys[j] = key] = v]
    ELSE [obj EXCEPT !.keys = Append(@, key), !.items = Append(@, v)]

EmptyObject == Val("object", "object", "", 0, "")
EmptyArray == Val("array", "array", "", 0, "")

\* `${ast._tag}<unknown, ...>` for a parameterized declaration, else ast._tag.
RECURSIVE UnknownList(_)
UnknownList(k) == IF k <= 1 THEN "unknown" ELSE "unknown, " \o UnknownList(k - 1)

DeclarationTypeName(ast) ==
    IF Len(ast.typeParameters) > 0
    THEN ast.tag \o "<" \o UnknownList(Len(ast.typeParameters)) \o ">"
    ELSE ast.tag

(***************************************************************************)
(* The recursive walk of a type description.                               *)
(***************************************************************************)
RECURSIVE generateFromAST(_, _, _, _)
RECURSIVE objectFields(_, _, _, _, _)
RECURSIVE tupleElements(_, _, _, _, _, _)

\* `${basePath}.${fieldName}`, or fieldName at the root.
FieldPath(basePath, fieldName) ==
    IF Len(basePath) > 0 THEN basePath \o "." \o fieldName ELSE fieldName

\* result[fieldName] = (the value generated), then the remaining properties.
assignField(r, props, config, basePath, result) ==
    objectFields(r.g, Tail(props), config, basePath,
                 SetKey(result, Head(props).name, r.v))

\* A variant that stops after the first property: C11_ObjectKeys tells it
\* from objectFields.
objectFieldsFirstOnly(g, props, config, basePath, result) ==
    IF Len(props) = 0 \/ Len(result.keys) >= 1 \/ g.err # "" THEN Ret(result, g)
    ELSE assignField(generateFromAST(g, Head(props).type, config,
                                     FieldPath(basePath, Head(props).name)),
                     props, config, basePath, result)

\* The loop of generateObject over ast.propertySignatures.
objectFields(g, props, config, basePath, result) ==
    IF Len(props) = 0 \/ g.err # "" THEN Ret(result, g)
    ELSE assignField(generateFromAST(g, Head(props).type, config,
                                     FieldPath(basePath, Head(props).name)),
                     props, config, basePath, result)

generateObject(g, ast, config, basePath) ==
    objectFields(g, ast.propertySignatures, config, basePath, EmptyObject)

\* A variant that recurses into every member: C12_UnionMember tells it from
\* generateMember.
generateMemberRecursing(g, randomType, config, path) ==
    generateFromAST(g, randomType, config, path)

\* if (randomType._tag === 'Literal') return randomType.literal; else recurse.
generateMember(g, randomType, config, path) ==
    IF randomType.tag = "Literal" THEN Ret(randomType.literal, g)
    ELSE generateFromAST(g, randomType, config, path)

\* Math.floor(Math.random() * ast.types.length), the draw being Head(g.rnd)
\* over RandomDen; an empty member list gives undefined, whose _tag cannot be
\* read.
generateUnion(g, ast, config, path) ==
    IF Len(ast.types) = 0
    THEN Ret(Undefined, [g EXCEPT !.rnd = Tail(@), !.err = "TypeError"])
    ELSE generateMember([g EXCEPT !.rnd = Tail(@)],
                        ast.types[((Head(g.rnd) * Len(ast.types)) \div RandomDen) + 1],
                        config, path)

appendElement(r, elements, index, config, path, result) ==
    tupleElements(r.g, Tail(elements), index + 1, config, path,
                  [result EXCEPT !.items = Append(@, r.v)])

\* A variant whose child paths count from 1: C13_TupleElements tells it from
\* tupleElements.
tupleElementsFromOne(g, elements, index, config, path, result) ==
    IF Len(elements) = 0 \/ g.err # "" THEN Ret(result, g)
    ELSE appendElement(generateFromAST(g, Head(elements).type, config,
                                       path \o "[" \o IndexText(index + 1) \o "]"),
                       elements, index, config, path, result)

\* ast.elements.map((element, index) => ...), index counting from 0.
tupleElements(g, elements, index, config, path, result) ==
    IF Len(elements) = 0 \/ g.err # "" THEN Ret(result, g)
    ELSE appendElement(generateFromAST(g, Head(elements).type, config,
                                       path \o "[" \o IndexText(index) \o "]"),
                       elements, index, config, path, result)

generateTuple(g, ast, config, path) ==
    tupleElements(g, ast.elements, 0, config, path, EmptyArray)

generateDeclaration(g, ast, config, path) ==
    IF DeclarationTypeName(ast) = "Date"
    THEN generateDate(g, path, ConfigAt(config, getFieldName(path)))
    ELSE IF DeclarationTypeName(ast) = "UUID" THEN Invoke(g, "string.uuid", NoArg)
    ELSE IF DeclarationTypeName(ast) = "ULID"
         THEN Invoke(g, "string.alphanumeric", NumArg(26))
    ELSE IF DeclarationTypeName(ast) = "Email" THEN Invoke(g, "internet.email", NoArg)
    ELSE IF DeclarationTypeName(ast) = "URL" THEN Invoke(g, "internet.url", NoArg)
    ELSE IF Len(ast.typeParameters) > 0
    THEN generateFromAST(g, ast.typeParameters[1], config, path)
    ELSE Invoke(g, "lorem.word", NoArg)

\* A variant with a case for Literal nodes: C26_FallbackWord tells it from
\* generateFromAST.
generateFromASTWithLiteral(g, ast, config, path) ==
    IF g.err # "" THEN Ret(Undefined, g)
    ELSE IF ast.tag = "StringKeyword"
    THEN generateString(g, path, ConfigAt(config, getFieldName(path)))
    ELSE IF ast.tag = "NumberKeyword"
    THEN generateNumber(g, path, ConfigAt(config, getFieldName(path)))
    ELSE IF ast.tag = "BooleanKeyword"
    THEN generateBoolean(g, path, ConfigAt(config, getFieldName(path)))
    ELSE IF ast.tag = "TypeLiteral" THEN generateObject(g, ast, config, path)
    ELSE IF ast.tag = "Union" THEN generateUnion(g, ast, config, path)
    ELSE IF ast.tag = "TupleType" THEN generateTuple(g, ast, config, path)
    ELSE IF ast.tag = "Refinement" THEN generateFromAST(g, ast.from, config, path)
    ELSE IF ast.tag = "Transformation" THEN generateFromAST(g, ast.from, config, path)
    ELSE IF ast.tag = "Declaration" THEN generateDeclaration(g, ast, config, path)
    ELSE IF ast.tag = "Literal" THEN Ret(ast.literal, g)
    ELSE Invoke(g, "lorem.word", NoArg)

generateFromAST(g, ast, config, path) ==
    IF g.err # "" THEN Ret(Undefined, g)
    ELSE IF ast.tag = "StringKeyword"
    THEN generateString(g, path, ConfigAt(config, getFieldName(path)))
    ELSE IF ast.tag = "NumberKeyword"
    THEN generateNumber(g, path, ConfigAt(config, getFieldName(path)))
    ELSE IF ast.tag = "BooleanKeyword"
    THEN generateBoolean(g, path, ConfigAt(config, getFieldName(path)))
    ELSE IF ast.tag = "TypeLiteral" THEN generateObject(g, ast, config, path)
    ELSE IF ast.tag = "Union" THEN generateUnion(g, ast, config, path)
    ELSE IF ast.tag = "TupleType" THEN generateTuple(g, ast, config, path)
    ELSE IF ast.tag = "Refinement" THEN generateFromAST(g, ast.from, config, path)
    ELSE IF ast.tag = "Transformation" THEN generateFromAST(g, ast.from, config, path)
    ELSE IF ast.tag = "Declaration" THEN generateDeclaration(g, ast, config, path)
    ELSE Invoke(g, "lorem.word", NoArg)

\* The item loop of generateSync: count items from the root at path ''.
RECURSIVE generateItems(_, _, _, _, _)
pushItem(r, ast, config, count, results) ==
    generateItems(r.g, ast, config, count - 1, Append(results, r.v))

generateItems(g, ast, config, count, results) ==
    IF count <= 0 \/ g.err # "" THEN Ret(results, g)
    ELSE pushItem(generateFromAST(g, ast, config, ""), ast, config, count, results)

\* The most Math.random() draws one item of ast can take.
RECURSIVE SumUnionNodes(_)
RECURSIVE UnionNodes(_)
SumUnionNodes(nodes) ==
    IF Len(nodes) = 0 THEN 0 ELSE UnionNodes(Head(nodes)) + SumUnionNodes(Tail(nodes))
UnionNodes(ast) ==
    CASE ast.tag = "Union" -> 1 + SumUnionNodes(ast.types)
      [] ast.tag = "TypeLiteral" ->
           SumUnionNodes([i \in 1..Len(ast.propertySignatures) |->
                              ast.propertySignatures[i].type])
      [] ast.tag = "TupleType" ->
           SumUnionNodes([i \in 1..Len(ast.elements) |-> ast.elements[i].type])
      [] ast.tag \in {"Refinement", "Transformation"} -> UnionNodes(ast.from)
      [] ast.tag = "Declaration" -> SumUnionNodes(ast.typeParameters)
      [] OTHER -> 0

(***************************************************************************)
(* String seeds: the hash of EffectFaker.seed and MockGenerator.setupSeed, *)
(* on 32-bit words held as two 16-bit halves.                              *)
(***************************************************************************)
Alphabet == "abcdefghijklmnopqrstuvwxyz"
Capitals == "ABCDEFGHIJKLMNOPQRSTUVWXYZ"
Digits == "0123456789"

\* seed.charCodeAt(i), for the characters seeds are written with.
charCodeAt(c) ==
    IF IndexOf(Alphabet, c) > 0 THEN 96 + IndexOf(Alphabet, c)
    ELSE IF IndexOf(Capitals, c) > 0 THEN 64 + IndexOf(Capitals, c)
    ELSE IF IndexOf(Digits, c) > 0 THEN 47 + IndexOf(Digits, c)
    ELSE IF c = "-" THEN 45
    ELSE 32

\* A 32-bit word hi * 2^16 + lo.
Word(hi, lo) == [hi |-> hi, lo |-> lo]

\* hash << 5
ShiftLeft5(w) == Word((w.hi * 32 + (w.lo \div 2048)) % 65536, (w.lo * 32) % 65536)

\* a - b on 32-bit words
SubWord(a, b) ==
    Word((a.hi - b.hi - (IF a.lo < b.lo THEN 1 ELSE 0)) % 65536, (a.lo - b.lo) % 65536)

\* w + char on 32-bit words
AddChar(w, char) ==
    Word((w.hi + ((w.lo + char) \div 65536)) % 65536, (w.lo + char) % 65536)

\* The signed 32-bit integer a word stands for.
ToInt32(w) ==
    IF w.hi >= 32768 THEN ((w.hi - 65536) * 65536) + w.lo ELSE (w.hi * 65536) + w.lo

\* A variant of the loop without `- hash`: C20_SeedIsFoldBy31 tells it from
\* hashLoop.
RECURSIVE hashLoopShiftOnly(_, _)
hashLoopShiftOnly(hash, seed) ==
    IF Len(seed) = 0 THEN hash
    ELSE CHOOSE r \in {hashLoopShiftOnly(next, Tail(seed)) :
                         next \in {AddChar(ShiftLeft5(hash), charCodeAt(Head(seed)))}} : TRUE

\* The loop: hash = (hash << 5) - hash + char; hash = hash & hash.  Each
\* round's hash is a value (next) before the following round starts.
RECURSIVE hashLoop(_, _)
hashLoop(hash, seed) ==
    IF Len(seed) = 0 THEN hash
    ELSE CHOOSE r \in {hashLoop(next, Tail(seed)) :
                         next \in {AddChar(SubWord(ShiftLeft5(hash), hash),
                                           charCodeAt(Head(seed)))}} : TRUE

\* Math.abs
Abs(k) == IF k < 0 THEN 0 - k ELSE k

\* Math.abs(hash) as a word without a sign: the magnitude of the signed 32-bit
\* integer w stands for.  Math.abs works on doubles, so the magnitude of the
\* least integer, 2^31, is the word 32768 * 2^16 + 0.
absWord(w) ==
    IF w.hi >= 32768
    THEN Word((65535 - w.hi + (IF w.lo = 0 THEN 1 ELSE 0)) % 65536, (65536 - w.lo) % 65536)
    ELSE w

\* seedValue of a string seed, as a word.
seedWord(str) == absWord(hashLoop(Word(0, 0), str))

\* A seed given by the caller: a number or a string.
NoSeedInput == [t |-> "none", n |-> 0, s |-> ""]
NumSeed(k) == [t |-> "num", n |-> k, s |-> ""]
StrSeed(str) == [t |-> "str", n |-> 0, s |-> str]

\* seedValue as EffectFaker.seed computes it.
seedValue(seed) ==
    IF seed.t = "str" THEN Abs(ToInt32(hashLoop(Word(0, 0), seed.s))) ELSE seed.n

\* seedValue as MockGenerator.setupSeed computes it.
setupSeedValue(seed) ==
    IF seed.t = "str" THEN Abs(ToInt32(hashLoop(Word(0, 0), seed.s))) ELSE seed.n

(***************************************************************************)
(* Options of a call.  A missing member has t = "none" (given = FALSE for  *)
(* count).  A locale is a string code, a LocaleDefinition ("def") or a     *)
(* Faker instance the caller built ("faker").                              *)
(***************************************************************************)
NoCount == [given |-> FALSE, n |-> 0]
Count(k) == [given |-> TRUE, n |-> k]
NoLocale == [t |-> "none", code |-> ""]
StrLocale(code) == [t |-> "str", code |-> code]
DefLocale == [t |-> "def", code |-> "custom"]
FakerLocale == [t |-> "faker", code |-> "fr"]

\* The keys of allLocales the model knows.
KnownLocales == {"en", "de"}

CountInputs == {NoCount} \cup {Count(k) : k \in 0..MaxCount}
SeedInputs == {NoSeedInput, NumSeed(0), NumSeed(42), StrSeed("ab")}
LocaleInputs ==
    {NoLocale, StrLocale(""), StrLocale("en"), StrLocale("de"), StrLocale("xx"),
     DefLocale, FakerLocale}

Options == [count : CountInputs, seed : SeedInputs, locale : LocaleInputs]
NoOptions == [count |-> NoCount, seed |-> NoSeedInput, locale |-> NoLocale]

\* JavaScript truthiness of options.seed and options.locale.
SeedTruthy(seed) ==
    \/ seed.t = "num" /\ seed.n # 0
    \/ seed.t = "str" /\ Len(seed.s) > 0

LocaleTruthy(locale) ==
    \/ locale.t = "str" /\ Len(locale.code) > 0
    \/ locale.t \in {"def", "faker"}

(***************************************************************************)
(* The engine: MockGenerator's fields and the provider instances.  Slot    *)
(* "global" is the module-level faker; slot "own" is the instance the      *)
(* engine switched to last (built by it, or handed in by the caller).      *)
(***************************************************************************)
NoSeed == [set |-> FALSE, n |-> 0]
SomeSeed(k) == [set |-> TRUE, n |-> k]

\* new Faker({locale}): unseeded, so on a seed e of its own.
NewFaker(locale, e) == [locale |-> locale, seed |-> e, pos |-> 0]
NoFaker == [locale |-> "", seed |-> 0, pos |-> 0]

\* Faker.seed([k])
Reseed(fk, k) == [fk EXCEPT !.seed = k, !.pos = 0]

Engine(p, cf, cs) == [providers |-> p, currentFaker |-> cf, currentSeed |-> cs]

\* setSeed(seedValue)
setSeed(eng, k) ==
    [eng EXCEPT !.currentSeed = SomeSeed(k),
                !.providers[eng.currentFaker] = Reseed(@, k)]

\* setupSeed(seed)
storeAndApply(eng, k) ==
    [eng EXCEPT !.currentSeed = SomeSeed(k),
                !.providers[eng.currentFaker] = Reseed(@, k)]

setupSeed(eng, seed) == storeAndApply(eng, setupSeedValue(seed))

\* if (this.currentSeed !== undefined) this.currentFaker.seed([this.currentSeed])
reapplySeed(eng) ==
    IF eng.currentSeed.set
    THEN [eng EXCEPT !.providers[eng.currentFaker] = Reseed(@, eng.currentSeed.n)]
    ELSE eng

\* setupLocale(locale): the engine after it and the error it threw, if any.
\* e is the seed a newly built instance starts from; an instance handed in by
\* the caller is one the caller has just built.
setupLocale(eng, locale, e) ==
    IF locale.t = "str" /\ locale.code \notin KnownLocales
    THEN [eng |-> eng, err |-> "Error: Locale not found"]
    ELSE [eng |-> reapplySeed([eng EXCEPT !.providers.own = NewFaker(locale.code, e),
                                          !.currentFaker = "own"]),
          err |-> ""]

\* if (options?.locale) this.setupLocale(options.locale)
applyLocale(eng, options, e) ==
    IF LocaleTruthy(options.locale) THEN setupLocale(eng, options.locale, e)
    ELSE [eng |-> eng, err |-> ""]

\* if (options?.seed) this.setupSeed(options.seed)
applySeed(eng, options) ==
    IF SeedTruthy(options.seed) THEN setupSeed(eng, options.seed) ELSE eng

\* What the call leaves and returns once the item loop has ended with r.
endOfLoop(eng, r) ==
    [eng |-> [eng EXCEPT !.providers[eng.currentFaker] = r.g.fk],
     err |-> r.g.err,
     results |-> IF r.g.err = "" THEN r.v ELSE <<>>,
     calls |-> r.g.calls]

\* A variant with `options.count || 1`: C2_CountLength tells it from runLoop.
runLoopFalsyCount(eng, schema, config, options, rnd) ==
    endOfLoop(eng,
              generateItems([fk |-> eng.providers[eng.currentFaker], rnd |-> rnd,
                             calls |-> <<>>, err |-> ""],
                            schema, config,
                            IF options.count.given /\ options.count.n # 0
                            THEN options.count.n ELSE 1, <<>>))

\* const count = options?.count ?? 1, then the loop.
runLoop(eng, schema, config, options, rnd) ==
    endOfLoop(eng,
              generateItems([fk |-> eng.providers[eng.currentFaker], rnd |-> rnd,
                             calls |-> <<>>, err |-> ""],
                            schema, config,
                            IF options.count.given THEN options.count.n ELSE 1, <<>>))

afterLocale(a, schema, config, options, rnd) ==
    IF a.err # ""
    THEN [eng |-> a.eng, err |-> a.err, results |-> <<>>, calls |-> <<>>]
    ELSE runLoop(applySeed(a.eng, options), schema, config, options, rnd)

\* A variant that returns at once when count is 0, before the options are
\* looked at: C30_OptionsOncePerCall tells it from generateSync.
generateSyncSkippingEmpty(eng, schema, config, options, e, rnd) ==
    IF options.count = Count(0)
    THEN [eng |-> eng, err |-> "", results |-> <<>>, calls |-> <<>>]
    ELSE afterLocale(applyLocale(eng, options, e), schema, config, options, rnd)

\* generateSync(schema, config, options): the engine after it, what it
\* returned or threw, and the provider calls it made.  rnd are the
\* Math.random() draws of this call.
generateSync(eng, schema, config, options, e, rnd) ==
    afterLocale(applyLocale(eng, options, e), schema, config, options, rnd)

(***************************************************************************)
(* Schemas with their override configurations.                             *)
(***************************************************************************)
NoConfig == [k \in {} |-> NoOverride]

\* S.Struct({ [name]: type }) with the configuration { [name]: override }.
Field(name, type, override) ==
    [schema |-> TypeLiteral(<<Prop(name, type)>>),
     config |-> IF override = NoOverride THEN NoConfig
                ELSE [k \in {name} |-> override]]

\* A schema with no configuration.
Shape(schema) == [schema |-> schema, config |-> NoConfig]

Scenarios ==
    [ user        |-> Field("name", StringKeyword, NoOverride),
      status      |-> [schema |-> Union(<<Literal("active"), Literal("inactive")>>),
                       config |-> NoConfig],
      age         |-> Field("age", NumberKeyword, NoOverride),
      flag        |-> Field("active", BooleanKeyword, NoOverride),
      nameFn      |-> Field("name", StringKeyword, FnOverride("fixedValue")),
      ageFn       |-> Field("age", NumberKeyword, FnOverride("seven")),
      flagFn      |-> Field("active", BooleanKeyword, FnOverride("seven")),
      emailSpec   |-> Field("email", StringKeyword, StrOverride("person.firstName")),
      flagSpec    |-> Field("active", BooleanKeyword, StrOverride("person.firstName")),
      ageRange    |-> Field("age", NumberKeyword,
                            StrOverride("number.int({\"min\": 25, \"max\": 30})")),
      ageReversed |-> Field("age", NumberKeyword,
                            StrOverride("number.int({\"min\": 30, \"max\": 25})")),
      ageBadJson  |-> Field("age", NumberKeyword, StrOverride("number.int({invalid json})")),
      nameParens  |-> Field("name", StringKeyword, StrOverride("person.firstName()")),
      nameFake    |-> Field("name", StringKeyword, StrOverride("helpers.fake(oops)")),
      nameFakeNum |-> Field("name", StringKeyword, StrOverride("helpers.fake(5)")),
      nameFakeBare |-> Field("name", StringKeyword, StrOverride("helpers.fake")),
      nameNoMatch |-> Field("name", StringKeyword, StrOverride("not a spec!")),
      nameAbsent  |-> Field("name", StringKeyword, StrOverride("invalid.method")),
      nameModule  |-> Field("name", StringKeyword, StrOverride("person")),
      nameDr      |-> Field("name", StringKeyword,
                            ObjOverride("person.firstName", "drPrefix")),
      agePlus     |-> Field("age", NumberKeyword,
                            ObjOverride("number.int({\"min\": 25, \"max\": 30})",
                                        "plusOne")),
      ageDr       |-> Field("age", NumberKeyword, ObjOverride("number.int", "drPrefix")),
      emailObj    |-> Field("email", StringKeyword, ObjOverride("person.firstName", "")),
      nameNoSpec  |-> Field("name", StringKeyword, ObjOverride("", "drPrefix")),
      \* structures, unions, tuples and declarations
      emptyStruct |-> Shape(TypeLiteral(<<>>)),
      nested      |-> Shape(TypeLiteral(<<
                          Prop("level2", TypeLiteral(<<Prop("email", StringKeyword)>>)),
                          Prop("id", NumberKeyword)>>)),
      twoFields   |-> Shape(TypeLiteral(<<Prop("title", StringKeyword),
                                          Prop("active", BooleanKeyword)>>)),
      statusField |-> Shape(TypeLiteral(<<
                          Prop("status", Union(<<Literal("active"), Literal("inactive")>>))>>)),
      choice      |-> Shape(Union(<<Literal("none"), NumberKeyword,
                                    TypeLiteral(<<Prop("email", StringKeyword)>>)>>)),
      threeWay    |-> Shape(Union(<<Literal("red"), Literal("green"), Literal("blue")>>)),
      coordinates |-> Shape(TypeLiteral(<<
                          Prop("coordinates", TupleType(<<NumberKeyword, NumberKeyword>>))>>)),
      triple      |-> Shape(TupleType(<<StringKeyword,
                                        Union(<<Literal("on"), Literal("off")>>),
                                        BooleanKeyword>>)),
      emailTuple  |-> Shape(TypeLiteral(<<
                          Prop("email", TupleType(<<StringKeyword>>))>>)),
      emptyTuple  |-> Shape(TupleType(<<>>)),
      emailOrNone |-> Shape(TypeLiteral(<<
                          Prop("email", Union(<<Literal("none"), StringKeyword>>))>>)),
      secondFixed |-> [schema |-> TypeLiteral(<<
                          Prop("coordinates", TupleType(<<NumberKeyword, NumberKeyword>>))>>),
                       config |-> [k \in {"coordinates[1]"} |-> FnOverride("seven")]],
      \* one name at two depths, and override keys that are dotted paths
      sameName    |-> [schema |-> TypeLiteral(<<
                          Prop("name", StringKeyword),
                          Prop("address", TypeLiteral(<<Prop("name", StringKeyword)>>))>>),
                       config |-> [k \in {"name"} |-> FnOverride("fixedValue")]],
      dottedKey   |-> [schema |-> TypeLiteral(<<
                          Prop("name", StringKeyword),
                          Prop("address", TypeLiteral(<<Prop("name", StringKeyword)>>))>>),
                       config |-> [k \in {"address.name"} |-> FnOverride("fixedValue")]],
      trailingDot |-> [schema |-> TypeLiteral(<<
                          Prop("a", TypeLiteral(<<Prop("y.", StringKeyword)>>))>>),
                       config |-> [k \in {"a.y."} |-> FnOverride("fixedValue")]],
      \* one String or Number field with no override, by its name
      sEmail             |-> Field("email", StringKeyword, NoOverride),
      sName              |-> Field("name", StringKeyword, NoOverride),
      sPhone             |-> Field("phone", StringKeyword, NoOverride),
      sAddress           |-> Field("address", StringKeyword, NoOverride),
      sCity              |-> Field("city", StringKeyword, NoOverride),
      sCountry           |-> Field("country", StringKeyword, NoOverride),
      sUrl               |-> Field("url", StringKeyword, NoOverride),
      sTitle             |-> Field("title", StringKeyword, NoOverride),
      sDescription       |-> Field("description", StringKeyword, NoOverride),
      sBio               |-> Field("bio", StringKeyword, NoOverride),
      sCountryName       |-> Field("countryName", StringKeyword, NoOverride),
      sEmailAddress      |-> Field("emailAddress", StringKeyword, NoOverride),
      sUserEmail         |-> Field("userEmail", StringKeyword, NoOverride),
      sFullName          |-> Field("FULLNAME", StringKeyword, NoOverride),
      sCityUrl           |-> Field("cityUrl", StringKeyword, NoOverride),
      sTitleDescription  |-> Field("descriptionTitle", StringKeyword, NoOverride),
      nId                |-> Field("id", NumberKeyword, NoOverride),
      nUpperId           |-> Field("ID", NumberKeyword, NoOverride),
      nUserId            |-> Field("userId", NumberKeyword, NoOverride),
      nCustomId          |-> Field("customId", NumberKeyword, NoOverride),
      nAge               |-> Field("age", NumberKeyword, NoOverride),
      nPage              |-> Field("page", NumberKeyword, NoOverride),
      nPrice             |-> Field("price", NumberKeyword, NoOverride),
      nCost              |-> Field("cost", NumberKeyword, NoOverride),
      nCount             |-> Field("count", NumberKeyword, NoOverride),
      nQuantity          |-> Field("quantity", NumberKeyword, NoOverride),
      nDiscount          |-> Field("discount", NumberKeyword, NoOverride),
      nTotal             |-> Field("total", NumberKeyword, NoOverride),
      nAgePrice          |-> Field("agePrice", NumberKeyword, NoOverride),
      nPriceCount        |-> Field("priceCount", NumberKeyword, NoOverride),
      \* one field of a declared type, by the name the type was declared with
      dCreatedAt         |-> Field("createdAt", Declaration("Date", <<>>), NoOverride),
      dDueDate           |-> Field("dueDate", Declaration("Date", <<>>), NoOverride),
      dUuid              |-> Field("token", Declaration("UUID", <<>>), NoOverride),
      dUlid              |-> Field("key", Declaration("ULID", <<>>), NoOverride),
      dEmail             |-> Field("contact", Declaration("Email", <<>>), NoOverride),
      dUrl               |-> Field("link", Declaration("URL", <<>>), NoOverride),
      dBrand             |-> Field("age", Declaration("Brand", <<NumberKeyword>>),
                                  NoOverride),
      \* nodes of other kinds, and kinds that stand for another node
      kLiteral           |-> Field("kind", Literal("fixed"), NoOverride),
      kEmailLiteral      |-> Field("email", Literal("fixed"), NoOverride),
      kLiteralTuple      |-> Shape(TupleType(<<Literal("fixed")>>)),
      kAny               |-> Field("value", AnyKeyword, NoOverride),
      kSuspend           |-> Field("child", Suspend, NoOverride),
      kEnums             |-> Shape([tag |-> "Enums"]),
      kRefined           |-> Field("email", Refinement(StringKeyword), NoOverride),
      kTransformed       |-> Field("age", Transformation(NumberKeyword), NoOverride) ]

EngineScenarios == {"user", "status"}

ShapeScenarios ==
    {"emptyStruct", "nested", "twoFields", "statusField", "choice", "threeWay",
     "coordinates", "triple", "emailTuple", "emptyTuple", "emailOrNone",
     "secondFixed", "sameName", "dottedKey", "trailingDot"}

StringFields ==
    {"sEmail", "sName", "sPhone", "sAddress", "sCity", "sCountry", "sUrl",
     "sTitle", "sDescription", "sBio", "sCountryName", "sEmailAddress",
     "sUserEmail", "sFullName", "sCityUrl", "sTitleDescription"}

NumberFields ==
    {"nId", "nUpperId", "nUserId", "nCustomId", "nAge", "nPage", "nPrice",
     "nCost", "nCount", "nQuantity", "nDiscount", "nTotal", "nAgePrice",
     "nPriceCount"}

DeclaredFields ==
    {"dCreatedAt", "dDueDate", "dUuid", "dUlid", "dEmail", "dUrl", "dBrand"}

OtherKinds ==
    {"kLiteral", "kEmailLiteral", "kLiteralTuple", "kAny", "kSuspend", "kEnums",
     "kRefined", "kTransformed"}

LeafScenarios == StringFields \cup NumberFields \cup DeclaredFields \cup OtherKinds

FieldScenarios ==
    DOMAIN Scenarios \ ({"status"} \cup ShapeScenarios \cup LeafScenarios)

(***************************************************************************)
(* The registry of custom functions: a Map from names to functions.        *)
(***************************************************************************)
\* A variant of Map.prototype.set that keeps the value a key already has:
\* C18_LastWriterWins tells it from set.
setKeepingFirst(m, key, value) ==
    IF \E i \in 1..Len(m) : m[i].key = key THEN m
    ELSE Append(m, [key |-> key, value |-> value])

\* Map.prototype.set: a known key keeps its place and takes the new value, a
\* new key goes last.
set(m, key, value) ==
    IF \E i \in 1..Len(m) : m[i].key = key
    THEN [i \in 1..Len(m) |-> IF m[i].key = key THEN [key |-> key, value |-> value]
                              ELSE m[i]]
    ELSE Append(m, [key |-> key, value |-> value])

\* What get answers for a name that is not there.
Absent == "undefined"

\* EffectFakerRegistry.has, get and list.
has(name) == \E i \in 1..Len(customFakers) : customFakers[i].key = name

get(name) ==
    IF has(name)
    THEN customFakers[CHOOSE i \in 1..Len(customFakers) : customFakers[i].key = name].value
    ELSE Absent

list == [i \in 1..Len(customFakers) |-> customFakers[i].key]

\* The names and the functions a caller registers.
\* "name" is also a field name, "person.firstName" also a method spec.
FakerNames == {"", "name", "person.firstName"}
FakerFns == {"fixedValue", "seven"}

(***************************************************************************)
(* The state machine: a caller's operations on one facade and its engine.  *)
(* An operation runs whole and leaves its result in last; the caller takes *)
(* it (Continue) before the next operation.                                *)
(***************************************************************************)
Op(op, sc, opt, outcome, batch, calls, changed) ==
    [op |-> op, sc |-> sc, opt |-> opt, outcome |-> outcome, batch |-> batch,
     calls |-> calls, changed |-> changed]

Idle == Op("idle", "", NoOptions, "", <<>>, <<>>, FALSE)

\* The operation left the engine other than it found it.
Changed ==
    <<providers, currentFaker, currentSeed>>' # <<providers, currentFaker, currentSeed>>

Init ==
    /\ \E e \in EntropySeeds :
          providers = [global |-> NewFaker("en", e), own |-> NoFaker]
    /\ currentFaker = "global"
    /\ currentSeed = NoSeed
    /\ facadeSeed = NoSeed
    /\ effects = {}
    /\ customFakers = <<>>
    /\ registered = <<>>
    /\ other = [facadeSeed |-> NoSeed, currentSeed |-> NoSeed]
    /\ pending = NoSeedInput
    /\ last = Idle

\* The Math.random() draws a call may take.
DrawCount(sc, opt) ==
    (IF opt.count.given THEN opt.count.n ELSE 1) * UnionNodes(Scenarios[sc].schema)

RandomDraws(sc, opt) == [1..DrawCount(sc, opt) -> RandomNums]

\* The seeds an instance built by this call may start from.
InstanceSeeds(opt) ==
    IF LocaleTruthy(opt.locale) THEN EntropySeeds
    ELSE {CHOOSE e \in EntropySeeds : TRUE}

WithinBounds(eng) ==
    \A slot \in DOMAIN eng.providers : eng.providers[slot].pos <= MaxPos

\* The engine's fields after an operation.
Becomes(eng) ==
    /\ providers' = eng.providers
    /\ currentFaker' = eng.currentFaker
    /\ currentSeed' = eng.currentSeed

\* this.currentSeed = seedValue; faker.seed([seedValue]);
\* this.generator.setSeed(seedValue)
seedWith(k) ==
    /\ facadeSeed' = SomeSeed(k)
    /\ Becomes(setSeed(Engine([providers EXCEPT !.global = Reseed(@, k)],
                              currentFaker, currentSeed), k))

\* EffectFaker.seed(value)
Seed(value) ==
    /\ last = Idle
    /\ seedWith(seedValue(value))
    /\ last' = Op("seed", "", [NoOptions EXCEPT !.seed = value], "returned",
                  <<>>, <<>>, Changed)
    /\ pending' = value
    /\ UNCHANGED <<effects, customFakers, registered, other>>

\* The end of a generateSync call that came to r.
Returns(op, ok, failed, sc, opt, r) ==
    /\ WithinBounds(r.eng)
    /\ Becomes(r.eng)
    /\ last' = Op(op, sc, opt, IF r.err = "" THEN ok ELSE failed, r.results, r.calls,
                  Changed)

\* EffectFaker.generateSync(schema, {config, ...options}), and generateSync of
\* a mock made by create(schema, config): both are the engine's generateSync.
GenerateSync(sc, opt) ==
    /\ last = Idle
    /\ \E e \in InstanceSeeds(opt), rnd \in RandomDraws(sc, opt) :
          Returns("generateSync", "returned", "threw", sc, opt,
                  generateSync(Engine(providers, currentFaker, currentSeed),
                               Scenarios[sc].schema, Scenarios[sc].config, opt, e, rnd))
    /\ UNCHANGED <<facadeSeed, effects, customFakers, registered, other, pending>>

\* A variant that runs the thunk when the effect is made: C5_EffectDeferred
\* tells it from generateEffect.
EagerStep(r) == WithinBounds(r.eng) /\ Becomes(r.eng)

generateEffectEager(sc, opt) ==
    /\ last = Idle
    /\ Cardinality(effects \cup {[sc |-> sc, opt |-> opt]}) <= MaxEffects
    /\ effects' = effects \cup {[sc |-> sc, opt |-> opt]}
    /\ \E e \in InstanceSeeds(opt), rnd \in RandomDraws(sc, opt) :
          EagerStep(generateSync(Engine(providers, currentFaker, currentSeed),
                                 Scenarios[sc].schema, Scenarios[sc].config, opt, e, rnd))
    /\ UNCHANGED <<facadeSeed, customFakers, registered, other, pending>>
    /\ last' = Op("generate", sc, opt, "deferred", <<>>, <<>>, Changed)

\* EffectFaker.generate / MockGenerator.generateEffect: Effect.try(() => ...)
\* builds the effect and runs nothing.
generateEffect(sc, opt) ==
    /\ last = Idle
    /\ Cardinality(effects \cup {[sc |-> sc, opt |-> opt]}) <= MaxEffects
    /\ effects' = effects \cup {[sc |-> sc, opt |-> opt]}
    /\ UNCHANGED <<providers, currentFaker, currentSeed, facadeSeed, customFakers,
                   registered, other, pending>>
    /\ last' = Op("generate", sc, opt, "deferred", <<>>, <<>>, Changed)

\* Running an effect (Effect.runSync, Effect.runPromise): the thunk runs
\* inside Effect.try, which turns what it throws into a failure.
RunEffect(eff) ==
    /\ last = Idle
    /\ \E e \in InstanceSeeds(eff.opt), rnd \in RandomDraws(eff.sc, eff.opt) :
          Returns("run", "success", "failure", eff.sc, eff.opt,
                  generateSync(Engine(providers, currentFaker, currentSeed),
                               Scenarios[eff.sc].schema, Scenarios[eff.sc].config,
                               eff.opt, e, rnd))
    /\ UNCHANGED <<facadeSeed, effects, customFakers, registered, other, pending>>

\* The caller lets go of an effect.
DropEffect(eff) ==
    /\ last = Idle
    /\ effects' = effects \ {eff}
    /\ UNCHANGED <<providers, currentFaker, currentSeed, facadeSeed, customFakers,
                   registered, other, pending>>
    /\ last' = Op("drop", eff.sc, eff.opt, "returned", <<>>, <<>>, Changed)

\* The caller takes the result and goes on.
Continue ==
    /\ last # Idle
    /\ last' = Idle
    /\ pending' = IF last.op \in {"generateSync", "run"} THEN NoSeedInput ELSE pending
    /\ UNCHANGED <<providers, currentFaker, currentSeed, facadeSeed, effects,
                   customFakers, registered, other>>

\* Seeding, locale and count: every combination of options.
Next ==
    \/ \E value \in SeedInputs \ {NoSeedInput} : Seed(value)
    \/ \E sc \in EngineScenarios, opt \in Options : GenerateSync(sc, opt)
    \/ Continue

Spec == Init /\ [][Next]_vars

\* The calls a deferred effect is made of, and made beside one.
EffectOptions ==
    [count : {NoCount}, seed : {NoSeedInput, NumSeed(42)},
     locale : {NoLocale, StrLocale("de"), StrLocale("xx")}]

NextEffect ==
    \/ \E value \in {NumSeed(42)} : Seed(value)
    \/ \E opt \in EffectOptions : GenerateSync("user", opt)
    \/ \E opt \in EffectOptions : generateEffect("user", opt)
    \/ \E eff \in effects : RunEffect(eff)
    \/ \E eff \in effects : DropEffect(eff)
    \/ Continue

SpecEffect == Init /\ [][NextEffect]_vars

\* Override configurations: one field, with and without seed, locale, count.
FieldOptions ==
    [count : {NoCount, Count(MaxCount)}, seed : {NoSeedInput, NumSeed(42)},
     locale : {NoLocale, StrLocale("de")}]

NextFields ==
    \/ \E sc \in FieldScenarios, opt \in FieldOptions : GenerateSync(sc, opt)
    \/ Continue

SpecFields == Init /\ [][NextFields]_vars

\* Structures, unions and tuples: one item or none, seeded or not.
ShapeOptions ==
    [count : {NoCount, Count(0), Count(1)}, seed : {NoSeedInput, NumSeed(42)},
     locale : {NoLocale, StrLocale("de")}]

NextShapes ==
    \/ \E sc \in ShapeScenarios, opt \in ShapeOptions : GenerateSync(sc, opt)
    \/ Continue

SpecShapes == Init /\ [][NextShapes]_vars

\* EffectFaker.registerFaker(name, fakerFn) -> EffectFakerRegistry.register
RegisterFaker(name, fakerFn) ==
    /\ last = Idle
    /\ Len(registered) < MaxRegs
    /\ customFakers' = set(customFakers, name, fakerFn)
    /\ registered' = Append(registered, <<name, fakerFn>>)
    /\ UNCHANGED <<providers, currentFaker, currentSeed, facadeSeed, effects, other,
                   pending, last>>

\* Registrations between generations.
NextRegistry ==
    \/ \E name \in FakerNames, fakerFn \in FakerFns : RegisterFaker(name, fakerFn)
    \/ \E sc \in EngineScenarios \cup {"emailSpec"},
          opt \in {NoOptions, [NoOptions EXCEPT !.seed = NumSeed(42)]} :
          GenerateSync(sc, opt)
    \/ Continue

SpecRegistry == Init /\ [][NextRegistry]_vars

\* seed(value) on the second facade: faker.seed([seedValue]) on the
\* module-level faker, then its generator's setSeed on the same one.
OtherSeed(value) ==
    /\ last = Idle
    /\ providers' = [providers EXCEPT !.global = Reseed(@, seedValue(value))]
    /\ other' = [facadeSeed |-> SomeSeed(seedValue(value)),
                 currentSeed |-> SomeSeed(seedValue(value))]
    /\ UNCHANGED <<currentFaker, currentSeed, facadeSeed, effects, customFakers,
                   registered, pending>>
    /\ last' = Op("otherSeed", "", [NoOptions EXCEPT !.seed = value], "returned",
                  <<>>, <<>>, Changed)

\* The end of a generateSync call of the second facade that came to r.
OtherReturns(sc, opt, r) ==
    /\ \A slot \in DOMAIN r.eng.providers : r.eng.providers[slot].pos <= MaxPos
    /\ providers' = r.eng.providers
    /\ other' = [other EXCEPT !.currentSeed = r.eng.currentSeed]
    /\ last' = Op("otherGenerateSync", sc, opt,
                  IF r.err = "" THEN "returned" ELSE "threw", r.results, r.calls, Changed)

\* generateSync(schema, options) on the second facade, with no locale.
OtherGenerateSync(sc, opt) ==
    /\ last = Idle
    /\ UNCHANGED <<currentFaker, currentSeed, facadeSeed, effects, customFakers,
                   registered, pending>>
    /\ \E e \in InstanceSeeds(opt), rnd \in RandomDraws(sc, opt) :
          OtherReturns(sc, opt,
                       generateSync(Engine(providers, "global", other.currentSeed),
                                    Scenarios[sc].schema, Scenarios[sc].config, opt, e, rnd))

\* Two facades side by side: seeds and calls without a locale on each.
TwoOptions == [count : {NoCount}, seed : {NoSeedInput, NumSeed(43)}, locale : {NoLocale}]

NextTwo ==
    \/ \E value \in {NumSeed(42), StrSeed("ab")} : Seed(value)
    \/ \E opt \in TwoOptions : GenerateSync("user", opt)
    \/ \E value \in {NumSeed(42), NumSeed(43)} : OtherSeed(value)
    \/ \E opt \in TwoOptions : OtherGenerateSync("user", opt)
    \/ Continue

SpecTwo == Init /\ [][NextTwo]_vars

\* String seeds: every string of up to three of these characters, and longer
\* ones.
HashChars == {"a", "z", "A", "0", "-"}
HashPool ==
    {x \o y \o z : x \in HashChars \cup {""}, y \in HashChars \cup {""},
                    z \in HashChars \cup {""}}
        \cup {"test-seed", "reproducible", "xfjfxtf", "polygenelubricants"}

\* The string branch of EffectFaker.seed and MockGenerator.setupSeed on its
\* own: the seed number computed for str, as a word.
HashSeed(str) ==
    /\ last = Idle
    /\ last' = Op("hash", "", [NoOptions EXCEPT !.seed = StrSeed(str)], "returned",
                  <<seedWord(str)>>, <<>>, FALSE)
    /\ UNCHANGED <<providers, currentFaker, currentSeed, facadeSeed, effects,
                   customFakers, registered, other, pending>>

NextHash ==
    \/ \E str \in HashPool : HashSeed(str)
    \/ Continue

SpecHash == Init /\ [][NextHash]_vars

\* Seeds by name and by number, given to seed() and in the options of a call.
SeedPool ==
    {NumSeed(42), NumSeed(43), StrSeed("seed1"), StrSeed("seed2"), StrSeed("Aa"),
     StrSeed("BB"), StrSeed("test-seed"), StrSeed("reproducible")}

\* Calls with a seed in their options: one of the pool, 0 or the empty string.
SeedOptions ==
    [count : {NoCount, Count(2)}, seed : SeedPool \cup {NumSeed(0), StrSeed("")},
     locale : {NoLocale}]

NextSeeds ==
    \/ \E value \in SeedPool \cup {StrSeed("")} : Seed(value)
    \/ \E opt \in SeedOptions : GenerateSync("user", opt)
    \/ Continue

SpecSeeds == Init /\ [][NextSeeds]_vars

\* Fields generated from their names and kinds alone: one item or two, not
\* seeded or seeded; 720 is a seed whose stream starts with the least number
\* a provider draws.
LeafOptions ==
    [count : {NoCount, Count(2)}, seed : {NoSeedInput, NumSeed(42), NumSeed(720)},
     locale : {NoLocale}]

NextLeaves ==
    \/ \E sc \in LeafScenarios, opt \in LeafOptions : GenerateSync(sc, opt)
    \/ Continue

SpecLeaves == Init /\ [][NextLeaves]_vars

(***************************************************************************)
(* The properties.  They read the operation that just ended from last.     *)
(***************************************************************************)
SyncEnded == last.op = "generateSync"

KnownStringLocale(locale) == locale.t = "str" /\ locale.code \in KnownLocales
UnknownStringLocale(locale) == locale.t = "str" /\ locale.code \notin KnownLocales

\* An engine that was just built, and the draws of a call when Math.random()
\* gives 0 every time.
FreshEngine ==
    Engine([global |-> NewFaker("en", CHOOSE e \in EntropySeeds : TRUE),
            own |-> NoFaker], "global", NoSeed)

ZeroDraws(sc, opt) == [i \in 1..DrawCount(sc, opt) |-> 0]

\* What one run of the call (sc, opt) on engine eng returns.
OneRun(eng, sc, opt) ==
    generateSync(eng, Scenarios[sc].schema, Scenarios[sc].config, opt,
                 CHOOSE e \in EntropySeeds : TRUE, ZeroDraws(sc, opt)).results

\* The one field of a field scenario: its kind, its override, its value in
\* an item of the batch.
FieldOf(sc) == Scenarios[sc].schema.propertySignatures[1]

KindOf(sc) ==
    CASE FieldOf(sc).type.tag = "StringKeyword" -> "string"
      [] FieldOf(sc).type.tag = "NumberKeyword" -> "number"
      [] OTHER -> "boolean"

OverrideOf(sc) == ConfigAt(Scenarios[sc].config, FieldOf(sc).name)

ValueOf(item) == item.items[1]

\* The call the field-name heuristic (for a Boolean field, the kind default)
\* makes for the fields of the scenarios.
HeuristicCall(sc) ==
    CASE FieldOf(sc).name = "name" -> <<"person.fullName", NoArg>>
      [] FieldOf(sc).name = "email" -> <<"internet.email", NoArg>>
      [] FieldOf(sc).name = "age" -> <<"number.int", RangeArg(18, 80)>>
      [] OTHER -> <<"datatype.boolean", NoArg>>

\* The methods the interpreter calls on a spec string, run on its own.
ProbeCalls(spec) ==
    executeFakerMethod([fk |-> FreshEngine.providers.global, rnd |-> <<>>,
                        calls |-> <<>>, err |-> ""], spec).g.calls

InterpreterMethods(spec) == {ProbeCalls(spec)[i].m : i \in 1..Len(ProbeCalls(spec))}

\* The calls that returned.
IsReturn(c) == ~c.threw
Returned(calls) == SelectSeq(calls, IsReturn)

\* C1: determinism.  A generateSync call with a seed and a known locale
\* returns one batch whatever the engine's state was before it: the batch
\* the same call returns on an engine that was just built.
C1_Deterministic ==
    (SyncEnded /\ SeedTruthy(last.opt.seed) /\ KnownStringLocale(last.opt.locale))
        => /\ last.outcome = "returned"
           /\ last.batch = OneRun(FreshEngine, last.sc, last.opt)

\* C2: a generateSync call that returns gives exactly count elements, none
\* for count 0, and exactly one when the count is omitted.
C2_CountLength ==
    (SyncEnded /\ last.outcome = "returned")
        => /\ last.opt.count.given => Len(last.batch) = last.opt.count.n
           /\ last.opt.count = Count(0) => last.batch = <<>>
           /\ ~last.opt.count.given => Len(last.batch) = 1

C2_CountReached ==
    /\ SyncEnded /\ last.outcome = "returned"
    /\ last.opt.count = Count(MaxCount)
    /\ Len(last.batch) = MaxCount

\* C3: while a seed is stored, a generateSync call that switches the locale
\* and carries no seed of its own returns the batch of a newly built engine
\* seeded with the stored seed, whatever calls were made before.
C3_SeedSurvivesLocaleSwitch ==
    (/\ SyncEnded
     /\ last.opt.seed = NoSeedInput
     /\ LocaleTruthy(last.opt.locale) /\ ~UnknownStringLocale(last.opt.locale)
     /\ currentSeed.set)
        => /\ last.outcome = "returned"
           /\ last.batch = OneRun(setSeed(FreshEngine, currentSeed.n), last.sc, last.opt)

\* C4: a generateSync call with a string locale that is not a known locale
\* throws, generates nothing, and leaves the active provider and the stored
\* seed as they were.
C4_UnknownLocaleRejected ==
    (SyncEnded /\ UnknownStringLocale(last.opt.locale))
        => /\ last.outcome = "threw"
           /\ last.batch = <<>> /\ last.calls = <<>>
           /\ ~last.changed

\* C5: making an effect does no work: the engine is as it was and no provider
\* call is made; the work is done when the effect is run, and a fault of the
\* run (an unknown locale) is a failure of the effect, where generateSync
\* throws.
C5_EffectDeferred ==
    /\ last.op = "generate"
          => /\ ~last.changed /\ last.calls = <<>> /\ last.batch = <<>>
             /\ [sc |-> last.sc, opt |-> last.opt] \in effects
    /\ last.op = "run" => last.outcome \in {"success", "failure"}
    /\ (last.op = "run" /\ last.outcome = "success")
          => Len(last.batch) = 1 /\ last.calls # <<>>
    /\ (last.op = "run" /\ UnknownStringLocale(last.opt.locale))
          => last.outcome = "failure" /\ ~last.changed
    /\ (SyncEnded /\ UnknownStringLocale(last.opt.locale)) => last.outcome = "threw"

C5_EffectFailed ==
    /\ last.op = "run" /\ last.outcome = "failure"
    /\ UnknownStringLocale(last.opt.locale)

\* C6: an override wins over the field-name heuristic.  With a function
\* override the value is the function's result coerced to the field's kind and
\* the provider is not called; with a spec string or a structured override
\* with a spec every call is one the interpreter makes on that spec, never
\* the heuristic's; only without such an override is the heuristic's call (or
\* the kind default) made.
C6_OverrideWins ==
    (SyncEnded /\ last.sc \in FieldScenarios /\ last.outcome = "returned")
        => /\ OverrideOf(last.sc).t = "function"
                => /\ last.calls = <<>>
                   /\ \A i \in 1..Len(last.batch) :
                         ValueOf(last.batch[i])
                            = Coerce(KindOf(last.sc), CallOverrideFn(OverrideOf(last.sc).f))
           /\ OverrideOf(last.sc).t = "string"
                => /\ last.calls # <<>>
                   /\ \A j \in 1..Len(last.calls) :
                         /\ <<last.calls[j].m, last.calls[j].arg>> # HeuristicCall(last.sc)
                         /\ last.calls[j].m \in InterpreterMethods(OverrideOf(last.sc).s)
           /\ (OverrideOf(last.sc).t = "object" /\ Len(OverrideOf(last.sc).faker) > 0)
                => /\ last.calls # <<>>
                   /\ \A j \in 1..Len(last.calls) :
                         /\ <<last.calls[j].m, last.calls[j].arg>> # HeuristicCall(last.sc)
                         /\ last.calls[j].m \in InterpreterMethods(OverrideOf(last.sc).faker)
           /\ (\/ OverrideOf(last.sc).t = "undefined"
               \/ OverrideOf(last.sc).t = "object" /\ Len(OverrideOf(last.sc).faker) = 0)
                => /\ Len(last.calls) = Len(last.batch)
                   /\ \A j \in 1..Len(last.calls) :
                         <<last.calls[j].m, last.calls[j].arg>> = HeuristicCall(last.sc)

C6_FunctionOverrideUsed ==
    /\ SyncEnded /\ last.sc = "nameFn" /\ last.outcome = "returned"
    /\ Len(last.batch) > 0
    /\ ValueOf(last.batch[1]) = Text("fixed-value")

\* C7: a spec string with empty parentheses whose path is a callable member
\* of the provider gives the result of that method, called with no argument.
C7_EmptyParensInvoke ==
    (/\ SyncEnded /\ last.sc \in FieldScenarios
     /\ OverrideOf(last.sc).t = "string"
     /\ Len(OverrideOf(last.sc).s) > 2
     /\ SubSeq(OverrideOf(last.sc).s, Len(OverrideOf(last.sc).s) - 1,
               Len(OverrideOf(last.sc).s)) = "()"
     /\ SubSeq(OverrideOf(last.sc).s, 1, Len(OverrideOf(last.sc).s) - 2) \in FunctionPaths)
        => /\ last.outcome = "returned"
           /\ last.calls # <<>>
           /\ \A j \in 1..Len(last.calls) :
                 /\ last.calls[j].m
                       = SubSeq(OverrideOf(last.sc).s, 1, Len(OverrideOf(last.sc).s) - 2)
                 /\ last.calls[j].arg = NoArg

\* The spec string of a scenario's override, its path before "(" and its
\* argument blob between the parentheses.
SpecOf(sc) ==
    IF OverrideOf(sc).t = "string" THEN OverrideOf(sc).s ELSE OverrideOf(sc).faker

PathOf(spec) == SubSeq(spec, 1, IndexOf(spec, "(") - 1)
BlobOf(spec) == SubSeq(spec, IndexOf(spec, "(") + 1, Len(spec) - 1)

HasBlob(spec) ==
    /\ IndexOf(spec, "(") > 1
    /\ SubSeq(spec, Len(spec), Len(spec)) = ")"
    /\ Len(BlobOf(spec)) > 0
    /\ PathOf(spec) \in FunctionPaths

\* C8: for a spec with a non-empty argument blob and a callable path, a blob
\* that parses as JSON makes the first call one with exactly the parsed value
\* (so number.int with min 25 and max 30 returns a number from 25 to 30), and
\* the only other call is the one without arguments after a call that threw;
\* a blob that is not JSON makes every call one without arguments.
C8_ArgumentBlob ==
    (SyncEnded /\ last.sc \in FieldScenarios /\ HasBlob(SpecOf(last.sc)))
        => /\ last.calls # <<>>
           /\ \A j \in 1..Len(last.calls) : last.calls[j].m = PathOf(SpecOf(last.sc))
           /\ JsonParse(BlobOf(SpecOf(last.sc))).ok
                => /\ last.calls[1].arg = JsonParse(BlobOf(SpecOf(last.sc))).arg
                   /\ \A j \in 1..Len(last.calls) :
                         \/ last.calls[j].arg = JsonParse(BlobOf(SpecOf(last.sc))).arg
                         \/ /\ j > 1 /\ last.calls[j - 1].threw
                            /\ last.calls[j].arg = NoArg
                   /\ \A j \in 1..Len(last.calls) :
                         (last.calls[j].arg = RangeArg(25, 30))
                            => /\ ~last.calls[j].threw
                               /\ last.calls[j].v.kind = "number"
                               /\ last.calls[j].v.den = 1
                               /\ last.calls[j].v.n \in 25..30
           /\ ~JsonParse(BlobOf(SpecOf(last.sc))).ok
                => \A j \in 1..Len(last.calls) : last.calls[j].arg = NoArg

C8_RangeParsed ==
    /\ SyncEnded /\ last.sc = "ageRange" /\ last.outcome = "returned"
    /\ last.calls # <<>>
    /\ last.calls[1].arg = RangeArg(25, 30)
    /\ ValueOf(last.batch[1]).n \in 25..30

\* C9: with an override string of any shape, generation returns, and every
\* value is of the field's primitive kind.
C9_OverrideStringsNeverRaise ==
    (SyncEnded /\ last.sc \in FieldScenarios /\ OverrideOf(last.sc).t = "string")
        => /\ last.outcome = "returned"
           /\ \A i \in 1..Len(last.batch) :
                 ValueOf(last.batch[i]).kind = KindOf(last.sc)

\* C10: with a structured override {faker, transform} the value of the field
\* is the interpreter's raw result, transformed when there is a transform,
\* and only then coerced to the field's kind.
C10_TransformThenCoerce ==
    (/\ SyncEnded /\ last.sc \in FieldScenarios /\ last.outcome = "returned"
     /\ OverrideOf(last.sc).t = "object" /\ Len(OverrideOf(last.sc).faker) > 0)
        => /\ Len(Returned(last.calls)) = Len(last.batch)
           /\ \A i \in 1..Len(last.batch) :
                 /\ Returned(last.calls)[i].m \in InterpreterMethods(OverrideOf(last.sc).faker)
                 /\ ValueOf(last.batch[i])
                       = Coerce(KindOf(last.sc),
                                IF Len(OverrideOf(last.sc).transform) > 0
                                THEN ApplyTransform(OverrideOf(last.sc).transform,
                                                    Returned(last.calls)[i].v)
                                ELSE Returned(last.calls)[i].v)

C10_TransformedNotNumeric ==
    /\ SyncEnded /\ last.sc = "ageDr" /\ last.outcome = "returned"
    /\ Len(last.batch) > 0
    /\ Returned(last.calls)[1].v.kind = "number"
    /\ ValueOf(last.batch[1]) = NaN

(***************************************************************************)
(* Structures, unions, tuples.                                             *)
(***************************************************************************)
\* The kind of value a keyword node stands for.
KeywordKind(ast) ==
    CASE ast.tag = "StringKeyword" -> "string"
      [] ast.tag = "NumberKeyword" -> "number"
      [] ast.tag = "BooleanKeyword" -> "boolean"
      [] OTHER -> "none"

\* v is a value of the type ast describes.
RECURSIVE HasShape(_, _)
HasShape(ast, v) ==
    CASE ast.tag = "TypeLiteral" ->
           /\ v.kind = "object"
           /\ v.keys = [i \in 1..Len(ast.propertySignatures) |->
                            ast.propertySignatures[i].name]
           /\ Len(v.items) = Len(ast.propertySignatures)
           /\ \A i \in 1..Len(v.items) :
                 HasShape(ast.propertySignatures[i].type, v.items[i])
      [] ast.tag = "TupleType" ->
           /\ v.kind = "array"
           /\ v.keys = <<>>
           /\ Len(v.items) = Len(ast.elements)
           /\ \A i \in 1..Len(v.items) : HasShape(ast.elements[i].type, v.items[i])
      [] ast.tag = "Union" -> \E i \in 1..Len(ast.types) : HasShape(ast.types[i], v)
      [] ast.tag = "Literal" -> v = ast.literal
      [] OTHER -> v.kind = KeywordKind(ast) /\ v.keys = <<>> /\ v.items = <<>>

\* The values a provider call made in v, left to right.
RECURSIVE Leaves(_)
RECURSIVE LeavesOf(_)
LeavesOf(items) ==
    IF Len(items) = 0 THEN <<>> ELSE Leaves(Head(items)) \o LeavesOf(Tail(items))
Leaves(v) ==
    IF v.kind \in {"object", "array"} THEN LeavesOf(v.items)
    ELSE IF v.gen = "literal" THEN <<>>
    ELSE <<v>>

\* The values the calls returned, in order.
CallValues(calls) == [j \in 1..Len(Returned(calls)) |-> Returned(calls)[j].v]
CallMethods(calls) == [j \in 1..Len(calls) |-> calls[j].m]

RootTag(sc) == Scenarios[sc].schema.tag

\* The methods the fields of the structures are generated with, by their
\* paths: level2.email, id; title, active; coordinates[0], coordinates[1];
\* email[0].
StructMethods(sc) ==
    CASE sc = "nested" -> <<"internet.email", "number.int">>
      [] sc = "twoFields" -> <<"lorem.sentence", "datatype.boolean">>
      [] sc = "coordinates" -> <<"number.int", "number.int">>
      [] sc = "emailTuple" -> <<"internet.email">>
      [] OTHER -> <<>>

\* C11: an Object node with k declared fields gives an object with exactly
\* those k keys in declaration order, each holding the value generated for
\* the field's type at the field's path; with no fields, an object with no
\* keys.
C11_ObjectKeys ==
    (/\ SyncEnded /\ last.sc \in ShapeScenarios /\ RootTag(last.sc) = "TypeLiteral"
     /\ Scenarios[last.sc].config = NoConfig
     /\ last.outcome = "returned")
        => \A i \in 1..Len(last.batch) :
              /\ HasShape(Scenarios[last.sc].schema, last.batch[i])
              /\ last.sc = "emptyStruct" => last.batch[i] = EmptyObject
              /\ Leaves(last.batch[i]) = CallValues(last.calls)
              /\ last.sc # "emailOrNone"
                    => CallMethods(last.calls) = StructMethods(last.sc)

C11_NestedObject ==
    /\ SyncEnded /\ last.sc = "nested" /\ last.outcome = "returned"
    /\ Len(last.batch) = 1
    /\ last.batch[1].keys = <<"level2", "id">>
    /\ last.batch[1].items[1].keys = <<"email">>
    /\ last.batch[1].items[1].items[1].gen = "internet.email"

\* The literals of a union of literals.
LiteralsOf(ast) == {ast.types[i].literal : i \in 1..Len(ast.types)}

\* C12: a Union node gives a value of one of its members, and the pick never
\* falls outside the member list (the call returns).  A Literal member gives
\* its literal and calls nothing; any other member is generated at the
\* union's own path: a String member under the field email is an email
\* address.  For a union of literals every draw is one of the literals.
C12_UnionMember ==
    (/\ SyncEnded
     /\ last.sc \in {"statusField", "choice", "threeWay", "emailOrNone"})
        => /\ last.outcome = "returned"
           /\ \A i \in 1..Len(last.batch) :
                 /\ HasShape(Scenarios[last.sc].schema, last.batch[i])
                 /\ Leaves(last.batch[i]) = CallValues(last.calls)
                 /\ last.sc = "threeWay"
                       => /\ last.batch[i] \in LiteralsOf(Scenarios["threeWay"].schema)
                          /\ last.calls = <<>>
                 /\ last.sc = "statusField"
                       => /\ last.batch[i].items[1]
                               \in {Literal("active").literal, Literal("inactive").literal}
                          /\ last.calls = <<>>
                 /\ last.sc = "emailOrNone"
                       => \/ last.batch[i].items[1] = Literal("none").literal
                             /\ last.calls = <<>>
                          \/ CallMethods(last.calls) = <<"internet.email">>
                 /\ last.sc = "choice"
                       => \/ last.batch[i] = Literal("none").literal /\ last.calls = <<>>
                          \/ /\ last.batch[i].kind = "number"
                             /\ CallMethods(last.calls) = <<"number.int">>
                          \/ /\ last.batch[i].kind = "object"
                             /\ CallMethods(last.calls) = <<"internet.email">>

C12_LastMemberDrawn ==
    /\ SyncEnded /\ last.sc = "threeWay" /\ last.outcome = "returned"
    /\ Len(last.batch) = 1
    /\ last.batch[1] = Literal("blue").literal

\* C13: a Tuple node of arity k gives an ordered sequence of exactly k
\* elements, element i generated for the i-th declared type at the child path
\* path[i], counted from 0: an override under coordinates[1] fixes the second
\* element and no other, a String under email[0] is an email address.
C13_TupleElements ==
    (/\ SyncEnded
     /\ last.sc \in {"coordinates", "triple", "emailTuple", "emptyTuple", "secondFixed"}
     /\ last.outcome = "returned")
        => \A i \in 1..Len(last.batch) :
              /\ HasShape(Scenarios[last.sc].schema, last.batch[i])
              /\ last.sc = "emptyTuple" => last.batch[i] = EmptyArray
              /\ last.sc = "triple"
                    => /\ Len(last.batch[i].items) = 3
                       /\ CallMethods(last.calls) = <<"lorem.word", "datatype.boolean">>
                       /\ <<last.batch[i].items[1], last.batch[i].items[3]>>
                             = CallValues(last.calls)
              /\ last.sc = "coordinates"
                    => /\ Len(last.batch[i].items[1].items) = 2
                       /\ last.batch[i].items[1].items = CallValues(last.calls)
              /\ last.sc = "emailTuple"
                    => CallMethods(last.calls) = <<"internet.email">>
              /\ last.sc = "secondFixed"
                    => /\ last.batch[i].items[1].items[2] = Num(7)
                       /\ <<last.batch[i].items[1].items[1]>> = CallValues(last.calls)

C13_SecondElementFixed ==
    /\ SyncEnded /\ last.sc = "secondFixed" /\ last.outcome = "returned"
    /\ Len(last.batch) = 1
    /\ last.batch[1].items[1].items[2] = Num(7)
    /\ last.batch[1].items[1].items[1].gen = "number.int"

\* The String rules of the field-name heuristic, in their order: the text a
\* name must contain, and the provider method of the rule.
StringRules ==
    << <<"email", "internet.email">>, <<"name", "person.fullName">>,
       <<"phone", "phone.number">>, <<"address", "location.streetAddress">>,
       <<"city", "location.city">>, <<"country", "location.country">>,
       <<"url", "internet.url">>, <<"title", "lorem.sentence">>,
       <<"description", "lorem.paragraph">> >>

Matching(rules, name) == {r \in 1..Len(rules) : includes(toLowerCase(name), rules[r][1])}

\* The method of the earliest rule the name matches, a single word with none.
FirstRule(rules, name) ==
    IF Matching(rules, name) = {} THEN "lorem.word"
    ELSE rules[CHOOSE r \in Matching(rules, name) :
                   \A q \in Matching(rules, name) : r <= q][2]

\* C14: a String field with no override is generated by the first rule, in
\* the fixed order email, name, phone, address, city, country, url, title,
\* description, whose text the lower-cased field name contains, and by a
\* single word when it contains none; countryName gets the rule of name,
\* emailAddress the rule of email.
C14_FirstRuleWins ==
    (SyncEnded /\ last.sc \in StringFields)
        => /\ last.outcome = "returned"
           /\ Len(last.calls) = Len(last.batch)
           /\ \A i \in 1..Len(last.batch) :
                 /\ last.calls[i].m = FirstRule(StringRules, FieldOf(last.sc).name)
                 /\ last.calls[i].arg = NoArg
                 /\ ValueOf(last.batch[i]) = last.calls[i].v
                 /\ ValueOf(last.batch[i]).kind = "string"
                 /\ last.sc = "sCountryName" => last.calls[i].m = "person.fullName"
                 /\ last.sc = "sEmailAddress" => last.calls[i].m = "internet.email"
                 /\ last.sc = "sBio" => last.calls[i].m = "lorem.word"

C14_CountryNameIsName ==
    /\ SyncEnded /\ last.sc = "sCountryName" /\ last.outcome = "returned"
    /\ Len(last.batch) = 2
    /\ ValueOf(last.batch[1]).gen = "person.fullName"
    /\ ValueOf(last.batch[2]).gen = "person.fullName"

\* The Number rule of a field name: the provider method, the least and the
\* greatest value, and the parts of one the value is counted in.
NumberRule(name) ==
    IF toLowerCase(name) = "id" THEN <<"number.int", RangeArg(1, 100000)>>
    ELSE IF includes(toLowerCase(name), "age") THEN <<"number.int", RangeArg(18, 80)>>
    ELSE IF includes(toLowerCase(name), "price") \/ includes(toLowerCase(name), "cost")
    THEN <<"number.float", FloatArg(10, 1000, 2)>>
    ELSE IF includes(toLowerCase(name), "count") \/ includes(toLowerCase(name), "quantity")
    THEN <<"number.int", RangeArg(1, 100)>>
    ELSE <<"number.int", NoArg>>

\* v is a number of d fraction digits between lo and hi.
InRange(v, lo, hi, d) ==
    /\ v.kind = "number" /\ v.gen # "NaN"
    /\ v.den = PowTen(d)
    /\ lo * v.den <= v.n /\ v.n <= hi * v.den

\* C15: a Number field with no override is generated by the first rule its
\* lower-cased name meets: exactly id, an integer of 1..100000; contains age,
\* an integer of 18..80; contains price or cost, a number of 10..1000 with two
\* fraction digits; contains count or quantity, an integer of 1..100; else an
\* integer with no range asked for.  The value is within the rule's range.
C15_NumberRule ==
    (SyncEnded /\ last.sc \in NumberFields)
        => /\ last.outcome = "returned"
           /\ Len(last.calls) = Len(last.batch)
           /\ \A i \in 1..Len(last.batch) :
                 /\ <<last.calls[i].m, last.calls[i].arg>> = NumberRule(FieldOf(last.sc).name)
                 /\ ValueOf(last.batch[i]) = last.calls[i].v
                 /\ last.sc \in {"nId", "nUpperId"}
                       => InRange(ValueOf(last.batch[i]), 1, 100000, 0)
                 /\ last.sc \in {"nAge", "nPage", "nAgePrice"}
                       => InRange(ValueOf(last.batch[i]), 18, 80, 0)
                 /\ last.sc \in {"nPrice", "nCost", "nPriceCount"}
                       => InRange(ValueOf(last.batch[i]), 10, 1000, 2)
                 /\ last.sc \in {"nCount", "nQuantity", "nDiscount"}
                       => InRange(ValueOf(last.batch[i]), 1, 100, 0)
                 /\ last.sc \in {"nTotal", "nUserId", "nCustomId"}
                       => /\ last.calls[i].arg = NoArg
                          /\ ValueOf(last.batch[i]).kind = "number"
                          /\ ValueOf(last.batch[i]).den = 1

C15_PriceBeforeCount ==
    /\ SyncEnded /\ last.sc = "nPriceCount" /\ last.outcome = "returned"
    /\ Len(last.batch) = 2
    /\ ValueOf(last.batch[1]).gen = "number.float"
    /\ InRange(ValueOf(last.batch[2]), 10, 1000, 2)

\* C16: a Number field named id, userId or customId with no override always
\* holds a value greater than 0.
C16_IdPositive ==
    (SyncEnded /\ last.sc \in {"nId", "nUpperId", "nUserId", "nCustomId"}
     /\ last.outcome = "returned")
        => \A i \in 1..Len(last.batch) : ValueOf(last.batch[i]).n > 0

\* The call the dedicated generator of a declared type makes for the fields
\* of the scenarios.
DedicatedCall(sc) ==
    CASE sc = "dCreatedAt" -> <<"date.past", NoArg>>
      [] sc = "dDueDate" -> <<"date.future", NoArg>>
      [] sc = "dUuid" -> <<"string.uuid", NoArg>>
      [] sc = "dUlid" -> <<"string.alphanumeric", NumArg(26)>>
      [] sc = "dEmail" -> <<"internet.email", NoArg>>
      [] OTHER -> <<"internet.url", NoArg>>

\* C17: a Declaration node of a recognized type name is generated by the
\* generator of that name: Date by the date chain (created -> past, due ->
\* future), UUID by a UUID, ULID by 26 alphanumeric characters, Email by an
\* email address, URL by a URL.
C17_DeclarationDispatch ==
    (SyncEnded /\ last.sc \in DeclaredFields \ {"dBrand"})
        => /\ last.outcome = "returned"
           /\ Len(last.calls) = Len(last.batch)
           /\ \A i \in 1..Len(last.batch) :
                 /\ <<last.calls[i].m, last.calls[i].arg>> = DedicatedCall(last.sc)
                 /\ ValueOf(last.batch[i]) = last.calls[i].v

\* The registerFaker calls made under a name, by their place in the order of
\* all calls.
RegisteredAs(name) == {i \in 1..Len(registered) : registered[i][1] = name}

\* The function of the latest registerFaker call under a name.
LatestFn(name) ==
    registered[CHOOSE i \in RegisteredAs(name) : \A j \in RegisteredAs(name) : j <= i][2]

\* C18: after any registerFaker calls, for every name (the empty one too) has
\* is true exactly when the name was registered, get gives the function of the
\* latest call under the name and nothing for a name never registered, and
\* list holds exactly the registered names, each once.  The calls made only
\* grow, so a name once registered stays: no operation removes it.
C18_LastWriterWins ==
    /\ \A name \in FakerNames :
          /\ has(name) <=> RegisteredAs(name) # {}
          /\ RegisteredAs(name) # {} => get(name) = LatestFn(name)
          /\ RegisteredAs(name) = {} => get(name) = Absent
    /\ {list[i] : i \in 1..Len(list)} = {registered[i][1] : i \in 1..Len(registered)}
    /\ \A i, j \in 1..Len(list) : list[i] = list[j] => i = j

C18_EmptyNameOverwritten ==
    /\ registered = << <<"", "fixedValue">>, <<"name", "seven">>, <<"", "seven">> >>
    /\ get("") = "seven"
    /\ list = <<"", "name">>
    /\ last.op = "generateSync"

\* C19: two distinct seeds of one kind (both strings or both numbers) never
\* come to the same provider seed, so the batch a call returns under one is
\* not the batch the same call returns under the other.
C19_DistinctSeeds ==
    (SyncEnded /\ last.sc = "user" /\ last.opt.seed \in SeedPool
     /\ last.outcome = "returned")
        => \A second \in SeedPool :
              (second.t = last.opt.seed.t /\ second # last.opt.seed)
                 => /\ setupSeedValue(second) # currentSeed.n
                    /\ OneRun(FreshEngine, last.sc, [last.opt EXCEPT !.seed = second])
                          # last.batch

\* acc * 31 + charCode over the characters in order, kept within 32 bits: the
\* accumulator is hi * 2^16 + lo.
RECURSIVE Fold31(_, _, _)
Fold31(hi, lo, str) ==
    IF Len(str) = 0 THEN <<hi, lo>>
    ELSE Fold31(((hi * 31) + (((lo * 31) + charCodeAt(Head(str))) \div 65536)) % 65536,
                ((lo * 31) + charCodeAt(Head(str))) % 65536,
                Tail(str))

\* The number of the signed 32-bit range a pair of halves stands for, without
\* its sign.
Magnitude(halves) ==
    IF halves[1] >= 32768
    THEN 0 - (((halves[1] - 65536) * 65536) + halves[2])
    ELSE (halves[1] * 65536) + halves[2]

\* The seed number a seed stands for: a string folds, a number is itself.
FoldedSeed(seed) ==
    IF seed.t = "str" THEN Magnitude(Fold31(0, 0, seed.s)) ELSE seed.n

\* C20: for a string seed, seed() and a generateSync call with the seed in its
\* options both store and apply the absolute value of the fold
\* acc := wrap32(acc * 31 + charCode) from 0 over the characters in order; a
\* numeric seed is stored unchanged.  The number depends on the seed alone.
C20_SeedIsFoldBy31 ==
    /\ last.op = "seed"
          => /\ facadeSeed = SomeSeed(FoldedSeed(last.opt.seed))
             /\ currentSeed = SomeSeed(FoldedSeed(last.opt.seed))
             /\ providers[currentFaker].seed = FoldedSeed(last.opt.seed)
    /\ (SyncEnded /\ SeedTruthy(last.opt.seed) /\ last.outcome = "returned")
          => /\ currentSeed = SomeSeed(FoldedSeed(last.opt.seed))
             /\ providers[currentFaker].seed = FoldedSeed(last.opt.seed)

C20_WrappedAndNegated ==
    /\ SyncEnded /\ last.opt.seed = StrSeed("test-seed") /\ last.outcome = "returned"
    /\ ToInt32(hashLoop(Word(0, 0), "test-seed")) = 0 - 1226328372
    /\ currentSeed = SomeSeed(1226328372)
    /\ facadeSeed = SomeSeed(1815216022)

\* C21: the seed number computed for a string seed lies in 0 .. 2^31 - 1,
\* also for a string whose hash ends at the least 32-bit integer.
C21_SeedInInt32 ==
    last.op = "hash" => last.batch[1].hi < 32768

\* C22: a generateSync call whose options carry a seed, whatever its value (0
\* and the empty string too), reseeds the active provider with the seed's
\* number before generating and stores that number as the active seed.
C22_SeedOptionApplied ==
    (SyncEnded /\ last.opt.seed.t # "none" /\ last.outcome = "returned")
        => /\ currentSeed = SomeSeed(setupSeedValue(last.opt.seed))
           /\ providers[currentFaker].seed = setupSeedValue(last.opt.seed)

\* The engine right after seed(value): the module-level provider and the
\* active one restart on the seed's number.
JustSeeded(value) ==
    setSeed(Engine([providers EXCEPT !.global = Reseed(@, seedValue(value))],
                   currentFaker, currentSeed), seedValue(value))

\* C23: two facades built apart do not interfere: seed(s) and then
\* generateSync(schema) on one gives the same batch whatever seed and
\* generateSync calls the other made in between.
C23_InstancesIndependent ==
    (/\ SyncEnded /\ last.outcome = "returned"
     /\ pending \in {NumSeed(42), StrSeed("ab")}
     /\ last.opt = NoOptions /\ last.sc = "user")
        => last.batch = OneRun(JustSeeded(pending), last.sc, last.opt)

\* What a generateSync call gives for the field of user and of emailSpec,
\* whatever is registered: the provider's values, by the method of the field
\* name (name) and of the configured spec (person.firstName).
GeneratedByProvider ==
    (SyncEnded /\ last.sc \in {"user", "emailSpec"})
        => /\ last.outcome = "returned"
           /\ Len(last.calls) = Len(last.batch)
           /\ \A i \in 1..Len(last.batch) :
                 /\ ValueOf(last.batch[i]) = last.calls[i].v
                 /\ last.calls[i].m = (IF last.sc = "user" THEN "person.fullName"
                                       ELSE "person.firstName")
           /\ SeedTruthy(last.opt.seed)
                 => last.batch = OneRun(FreshEngine, last.sc, last.opt)

\* C24: the registry is never consulted by generation.  registerFaker changes
\* the registry alone: the providers, the active one and the stored seeds
\* stay.  A later call returns what the provider gives, as with nothing
\* registered, also when a registered name is a field name or the method spec
\* of the configuration; the registered function is never called.
C24_RegistryNotConsulted ==
    /\ []GeneratedByProvider
    /\ [][registered' # registered
             => UNCHANGED <<providers, currentFaker, currentSeed, facadeSeed, last>>]_vars

C24_SpecNameRegistered ==
    /\ SyncEnded /\ last.sc = "emailSpec" /\ last.outcome = "returned"
    /\ has("person.firstName") /\ has("name")
    /\ ValueOf(last.batch[1]).gen = "person.firstName"

\* C25: an override key is matched with the last dot-separated segment of a
\* field's path and with nothing else: the fields name and address.name both
\* take the override under name, and no field takes an override whose key is
\* a dotted path.
C25_LastSegmentOnly ==
    (/\ SyncEnded /\ last.outcome = "returned"
     /\ last.sc \in {"sameName", "dottedKey", "trailingDot"})
        => \A i \in 1..Len(last.batch) :
              /\ HasShape(Scenarios[last.sc].schema, last.batch[i])
              /\ last.sc = "sameName"
                    => /\ last.calls = <<>>
                       /\ last.batch[i].items[1] = Text("fixed-value")
                       /\ last.batch[i].items[2].items[1] = Text("fixed-value")
              /\ last.sc \in {"dottedKey", "trailingDot"}
                    => Leaves(last.batch[i]) = CallValues(last.calls)

\* C26: a node of a kind other than String, Number, Boolean, Object, Union,
\* Tuple, Refinement, Transformation and Declaration gives one word and never
\* raises: so does a Literal that is an object field or a tuple element (a
\* word, not its literal), whatever the field is called, and a suspended
\* node.  Refinement and Transformation stand for the node they are made
\* from.
C26_FallbackWord ==
    (SyncEnded /\ last.sc \in OtherKinds)
        => /\ last.outcome = "returned"
           /\ Len(last.calls) = Len(last.batch)
           /\ \A i \in 1..Len(last.batch) :
                 /\ Leaves(last.batch[i]) = <<last.calls[i].v>>
                 /\ last.sc \notin {"kRefined", "kTransformed"}
                       => /\ last.calls[i].m = "lorem.word"
                          /\ last.calls[i].arg = NoArg
                          /\ last.calls[i].v.kind = "string"
                 /\ last.sc = "kEnums" => last.batch[i] = last.calls[i].v
                 /\ last.sc = "kRefined" => last.calls[i].m = "internet.email"
                 /\ last.sc = "kTransformed"
                       => <<last.calls[i].m, last.calls[i].arg>>
                             = <<"number.int", RangeArg(18, 80)>>

C26_LiteralFieldIsWord ==
    /\ SyncEnded /\ last.sc = "kLiteral" /\ last.outcome = "returned"
    /\ Len(last.batch) = 2
    /\ ValueOf(last.batch[1]).gen = "lorem.word"
    /\ ValueOf(last.batch[1]) # Scenarios["kLiteral"].schema.propertySignatures[1].type.literal

\* C27: while a seed is stored, a generateSync call with a string locale code
\* and no seed option starts a new provider on the stored seed, so the same
\* call made again returns the same batch; a call with no locale and no seed
\* option goes on in the stream it found.
C27_LocaleRestartsStream ==
    (SyncEnded /\ last.outcome = "returned" /\ last.opt.seed = NoSeedInput
     /\ currentSeed.set)
        => /\ last.opt.locale.t = "str"
                 => last.batch = OneRun(Engine(providers, currentFaker, currentSeed),
                                        last.sc, last.opt)
           /\ (last.opt.locale = NoLocale /\ last.calls # <<>>) => last.changed

\* C28: in the interpreter, a call with the parsed argument that throws is
\* swallowed and the same function is called again with no argument; a call
\* with no argument that throws (that retry, the call after a blob that is
\* not JSON, the call of a spec with no blob) is not caught: it is the last
\* call, generateSync throws and no batch is returned.
C28_RetryThenPropagate ==
    (SyncEnded /\ last.sc \in FieldScenarios /\ OverrideOf(last.sc).t = "string")
        => /\ \A j \in 1..Len(last.calls) :
                 /\ (last.calls[j].threw /\ last.calls[j].arg # NoArg)
                       => /\ j < Len(last.calls)
                          /\ last.calls[j + 1].m = last.calls[j].m
                          /\ last.calls[j + 1].arg = NoArg
                 /\ (last.calls[j].threw /\ last.calls[j].arg = NoArg)
                       => /\ j = Len(last.calls)
                          /\ last.outcome = "threw"
                          /\ last.batch = <<>>
           /\ last.sc \in {"nameFake", "nameFakeNum", "nameFakeBare"}
                 => last.outcome = "threw"
           /\ last.sc = "ageReversed" => last.outcome = "returned"

C28_RetryThrewToo ==
    /\ SyncEnded /\ last.sc = "nameFakeNum" /\ last.outcome = "threw"
    /\ Len(last.calls) = 2
    /\ last.calls[1].threw /\ last.calls[1].arg = NumArg(5)
    /\ last.calls[2].threw /\ last.calls[2].arg = NoArg

\* C29: seed(v) followed by generateSync(schema, {count: n}) returns the batch
\* and leaves the stored seed that generateSync(schema, {seed: v, count: n})
\* gives from the same engine, for v a non-zero integer or a non-empty string;
\* the facade's and the engine's hash of a string agree.
C29_FacadeSeedIsOptionSeed ==
    (/\ SyncEnded /\ last.outcome = "returned"
     /\ SeedTruthy(pending)
     /\ last.opt.seed = NoSeedInput /\ last.opt.locale = NoLocale)
        => /\ last.batch = OneRun(Engine(providers, currentFaker, currentSeed),
                                  last.sc, [last.opt EXCEPT !.seed = pending])
           /\ currentSeed = SomeSeed(setupSeedValue(pending))
           /\ seedValue(pending) = setupSeedValue(pending)

\* The provider the call ended on, as it stood at its j-th provider call when
\* the items are drawn one after another from one stream.
StreamAt(j) ==
    [providers[currentFaker] EXCEPT !.pos = @ - Len(last.calls) + j - 1]

\* C30: the locale and seed options are applied once per generateSync call,
\* before the loop and whatever the count: a call with count 0 returns the
\* empty sequence and makes no provider call, yet leaves the stored seed and
\* the active provider at the seed given and the active provider at the
\* locale given; the provider calls of one batch take consecutive positions
\* of one stream, from its start when an option was applied.
C30_OptionsOncePerCall ==
    (SyncEnded /\ last.outcome = "returned")
        => /\ last.opt.count = Count(0)
                 => /\ last.batch = <<>> /\ last.calls = <<>>
                    /\ SeedTruthy(last.opt.seed)
                          => /\ currentSeed = SomeSeed(setupSeedValue(last.opt.seed))
                             /\ providers[currentFaker] =
                                    Reseed(providers[currentFaker],
                                           setupSeedValue(last.opt.seed))
                    /\ LocaleTruthy(last.opt.locale)
                          => /\ currentFaker = "own"
                             /\ providers[currentFaker].pos = 0
                             /\ last.opt.locale.t = "str"
                                   => providers[currentFaker].locale
                                          = last.opt.locale.code
           /\ Len(last.calls) <= providers[currentFaker].pos
           /\ \A j \in 1..Len(last.calls) :
                 /\ ~last.calls[j].threw
                 /\ last.calls[j].v
                        = ProviderValue(last.calls[j].m, last.calls[j].arg, StreamAt(j))
           /\ (SeedTruthy(last.opt.seed) \/ LocaleTruthy(last.opt.locale))
                 => providers[currentFaker].pos = Len(last.calls)

C30_EmptyBatchSwitched ==
    /\ SyncEnded /\ last.outcome = "returned" /\ last.changed
    /\ last.opt.count = Count(0) /\ last.batch = <<>>
    /\ last.opt.seed = StrSeed("ab") /\ last.opt.locale = StrLocale("de")
    /\ currentFaker = "own" /\ providers.own.locale = "de"
    /\ currentSeed = SomeSeed(setupSeedValue(StrSeed("ab")))
====
